---- MODULE Spec2Model ----
(***************************************************************************)
(* Model of the rs-capture example servers.                                *)
(*                                                                         *)
(*   server = "ws"  : examples/server_ws.js (message transport, one binary *)
(*                    JPEG per WebSocket message)                          *)
(*   server = "rtc" : the WebRTC example server (socket.io signalling, one *)
(*                    shared RTCVideoSource track)                         *)
(*                                                                         *)
(* Both programs keep the same process-scope variables (capture, encoder,  *)
(* encoderW, encoderH, encoderBackpressure, isProcessing); the model keeps *)
(* one TLA+ variable per program variable and one action per event-loop    *)
(* callback.  Every callback runs to completion, so every action is        *)
(* atomic; an `await` splits a callback into two actions.                  *)
(*                                                                         *)
(* An object is modelled by the part of its state that can still matter:   *)
(* `capture` and `encoder` hold the state of the object the program        *)
(* variable refers to, `staleStarts` and `procs` hold the objects the      *)
(* program no longer refers to but whose callbacks can still run.          *)
(***************************************************************************)
EXTENDS Integers, Sequences, FiniteSets, TLC

\* ------------------------------------------------------------------ bounds
NumClients == 2     \* client identities in use at the same time
MaxPending == 2     \* capture.start() promises unsettled at the same time
MaxProcs == 1       \* released subprocesses that can still raise an event
MaxRes == 3         \* distinct raw-frame resolutions
MaxLen == 6         \* bytes a subprocess writes to its stdout
MaxCandidates == 3  \* remote candidates one peer sends
MaxInFlight == 2    \* handlers of one peer suspended at the same await
MaxFrames == 3      \* raw frames that carry a capture number
MaxMessages == 5    \* frames the page forwards to its decoder worker
MaxOut == 16        \* bytes a raw planar subprocess writes to its stdout
MaxBuf == 4         \* the ceiling of a buffer, where it is scaled to be reached
MaxJpegs == 2       \* frames in a stream whose frames are known
MaxDim == 4         \* width and height of a frame given to the converter
MaxSdp == 4         \* lines of a session description

Clients == 1..NumClients
\* JavaScript null: a value that is no object
Null == [null |-> TRUE]

\* The resolutions the capture source switches between: 1x1, 2x1, 1x2, 2x2 ...
Res(i) == [w |-> 1 + (i % 2), h |-> 1 + (i \div 2)]
Resolutions == {Res(i) : i \in 0..(MaxRes - 1)}

VARIABLES
  server,               \* which example program runs
  capEncoder,           \* CAP_ENCODER, read once at startup
  sharpAvail,           \* whether require('sharp') succeeds (getSharp)
  clients,              \* server_ws.js: const clients = new Set()
  connections,          \* WebRTC server: let connections = new Set()
  sock,                 \* per client: transport state
  capture,              \* let capture = null
  staleStarts,          \* stopped ScreenCaptures whose start() is unsettled
  lateFrames,           \* a stopped ScreenCapture may still deliver frames
  encoder,              \* let encoder = null
  encoderW,
  encoderH,
  encoderBackpressure,
  isProcessing,
  procs,                \* released subprocesses that can still raise events
  job,                  \* the suspended sharp pipeline(s) (await ...toBuffer())
  track,                \* WebRTC server: let track = null
  videoSource,          \* WebRTC server: let videoSource = null
  bufferedAmount,       \* per client: ws.bufferedAmount
  peer,                 \* per client: the closure of io.on('connection')
  crashed,              \* an exception nothing catches has ended the process
  outbox,               \* per client: what the callback that ran last handed to ws.send
  pushed,               \* what the callback that ran last handed to videoSource.onFrame
  calls,                \* the external calls the callback that ran last made
  input,                \* the bytes an ffmpeg subprocess writes to its stdout
  planar,               \* the target size of a raw planar encoder instance
  jpegs,                \* the frames it wrote, each with the bytes before it,
                        \* where the stream is built from frames
  fed,                  \* how many of them 'data' events have delivered
  buf,                  \* createFfmpegMjpegEncoder: let buf = Buffer.alloc(0)
  emitted,              \* the frames handed to onFrame, in order
  sdp,                  \* mungeSdp: its argument, split into lines
  munged,               \* mungeSdp: what it returned, split into lines
  rgba,                 \* rgbaToI420: its arguments width, height, rgba
  i420,                 \* rgbaToI420: what it returned
  captured,             \* how many raw frames the callback has numbered
  pipe,                 \* the numbers of the frames written to the current
                        \* encoder's stdin that it has not put out yet
  last,                 \* per client: the number of the frame sent to it last
  worker                \* decoder-worker.js: the module scope of a viewer's worker

\* The variables of the two servers' shared session
sessionVars == <<server, capEncoder, sharpAvail, clients, connections, sock,
                 capture, staleStarts, lateFrames, encoder, encoderW, encoderH,
                 encoderBackpressure, isProcessing, procs, job, track,
                 videoSource, bufferedAmount, peer, crashed, outbox, pushed,
                 calls>>

\* The variables of one subprocess's stdout handler
demuxVars == <<input, jpegs, planar, fed, buf, emitted>>

\* The argument and the result of the two pure functions
pureVars == <<sdp, munged, rgba, i420>>

\* The capture order of the frames, kept where the order of delivery is
\* studied
orderVars == <<captured, pipe, last>>

\* The decoder worker of a viewer's page
viewerVars == <<worker>>

vars == <<sessionVars, demuxVars, pureVars, orderVars, viewerVars>>

\* decoder-worker.js as loaded: ctx = null, decoding = false, pending = null;
\* frames are numbered in the order they are received, 0 is null.
\*   inflight  the frames whose decodeAndDraw is awaited
\*   drawn     the frames handed to ctx.drawImage
\*   posted    the messages posted to the page
NewWorker == [ctx |-> FALSE, decoding |-> FALSE, pending |-> 0,
              received |-> 0, inflight |-> <<>>, drawn |-> <<>>,
              posted |-> <<>>]

\* What a callback did to the outside world: capture.start() calls,
\* capture.stop() calls, subprocess spawns, encoder.close() calls,
\* proc.stdin.write calls.
NoCalls == [start |-> 0, stop |-> 0, spawn |-> 0, close |-> 0, write |-> 0]

\* The process-scope state as one record, so that the program's functions
\* can be written as functions from state to state and composed as the
\* code composes them.  A callback starts with nothing sent and no call made.
St == [clients |-> clients, connections |-> connections, sock |-> sock,
       capture |-> capture, staleStarts |-> staleStarts,
       lateFrames |-> lateFrames, encoder |-> encoder,
       encoderW |-> encoderW, encoderH |-> encoderH,
       encoderBackpressure |-> encoderBackpressure,
       isProcessing |-> isProcessing, procs |-> procs, job |-> job,
       track |-> track, videoSource |-> videoSource,
       bufferedAmount |-> bufferedAmount,
       peer |-> peer,
       crashed |-> crashed,
       outbox |-> [ws \in Clients |-> <<>>],
       pushed |-> <<>>,
       calls |-> NoCalls]

\* The process-scope variables after a callback that ended in state t
Apply(t) ==
  /\ ~crashed
  /\ crashed' = t.crashed
  /\ clients' = t.clients
  /\ connections' = t.connections
  /\ sock' = t.sock
  /\ capture' = t.capture
  /\ staleStarts' = t.staleStarts
  /\ lateFrames' = t.lateFrames
  /\ encoder' = t.encoder
  /\ encoderW' = t.encoderW
  /\ encoderH' = t.encoderH
  /\ encoderBackpressure' = t.encoderBackpressure
  /\ isProcessing' = t.isProcessing
  /\ procs' = t.procs
  /\ job' = t.job
  /\ track' = t.track
  /\ videoSource' = t.videoSource
  /\ bufferedAmount' = t.bufferedAmount
  /\ peer' = t.peer
  /\ outbox' = t.outbox
  /\ pushed' = t.pushed
  /\ calls' = t.calls
  /\ UNCHANGED <<server, capEncoder, sharpAvail>>
  /\ UNCHANGED demuxVars
  /\ UNCHANGED pureVars
  /\ UNCHANGED viewerVars

\* A callback that ended in state t, its frames not numbered
Commit(t) == Apply(t) /\ UNCHANGED orderVars

\* new ScreenCapture(cb, {fps}) followed by start(): the promise is unsettled
NewCapture == [start |-> "pending"]

\* The bounds of the model, as a guard on the state a callback leaves.
Bounded(t) ==
  /\ t.staleStarts + (IF t.capture = NewCapture THEN 1 ELSE 0) <= MaxPending
  /\ Len(t.procs) <= MaxProcs

\* ------------------------------------------------- server_ws.js, lines 1-473

\* ws.bufferedAmount > 2 * 1024 * 1024 in broadcastJpeg
BUFFERED_LIMIT == 2 * 1024 * 1024

\* The amounts of buffered output the model distinguishes: none, exactly the
\* limit, one byte over it.
BufferLevels == {0, BUFFERED_LIMIT, BUFFERED_LIMIT + 1}

\* The object createFfmpegMjpegEncoder / createFfmpegI420Encoder returns, with
\* the closure state of the subprocess behind it:
\*   closed        the closure's `closed` flag
\*   killed        close() has been invoked (stdin.end(), kill('SIGKILL'))
\*   drainPending  a stdin.write returned false and 'drain' is still to come
NewProc(w, h) == [w |-> w, h |-> h, closed |-> FALSE, killed |-> FALSE,
                  drainPending |-> FALSE]

\* encoder.close()
close(p) == [p EXCEPT !.closed = TRUE, !.killed = TRUE]

\* The program drops its reference to subprocess p.  p stays in the model
\* while it can still raise an event the program listens to or is still
\* running: a killed subprocess with no 'drain' to come is forgotten.
Release(s, p) ==
  IF p.killed /\ ~p.drainPending THEN s
  ELSE [s EXCEPT !.procs = Append(@, p)]

stopEncoder(s) ==
  IF s.encoder = Null THEN s
  ELSE Release([s EXCEPT !.encoder = Null,
                         !.encoderW = 0,
                         !.encoderH = 0,
                         !.encoderBackpressure = FALSE,
                         !.calls.close = @ + 1],
               close(s.encoder))

\* stopSharedCapture without its stopEncoder() call
stopSharedCapture_keepEncoder(s) ==
  IF s.capture = Null THEN s
  ELSE [s EXCEPT
         !.staleStarts = IF s.capture.start = "pending" THEN @ + 1 ELSE @,
         !.lateFrames = TRUE,
         !.capture = Null,
         !.calls.stop = @ + 1]

stopSharedCapture(s) ==
  IF s.capture = Null THEN s
  ELSE stopEncoder([s EXCEPT
         !.staleStarts = IF s.capture.start = "pending" THEN @ + 1 ELSE @,
         !.lateFrames = TRUE,
         !.capture = Null,
         !.calls.stop = @ + 1])

\* The synchronous part of startSharedCapture: construct the ScreenCapture
\* and call start(); the promise settles in CaptureStarted / CaptureStartFailed.
startSharedCapture(s) ==
  [s EXCEPT !.capture = NewCapture, !.calls.start = @ + 1]

\* attachClient without its `if (!capture)` test
attachClient_alwaysStart(s, ws) ==
  startSharedCapture([s EXCEPT !.clients = @ \cup {ws}])

attachClient(s, ws) ==
  LET t == [s EXCEPT !.clients = @ \cup {ws}]
  IN IF t.capture = Null THEN startSharedCapture(t) ELSE t

detachClient(s, ws) ==
  LET t == [s EXCEPT !.clients = @ \ {ws}]
  IN IF t.clients = {} THEN stopSharedCapture(t) ELSE t

\* broadcastJpeg that leaves the loop at the first client over the limit
\* (`break` for `continue`); the Set is visited in insertion order, here the
\* order of the identities.
broadcastJpeg_break(s, jpegBuffer) ==
  [s EXCEPT !.outbox = [ws \in Clients |->
       IF ws \notin s.clients THEN <<>>
       ELSE IF s.sock[ws] # "open" THEN <<>>
       ELSE IF \E x \in s.clients : /\ x <= ws
                                    /\ s.sock[x] = "open"
                                    /\ s.bufferedAmount[x] > BUFFERED_LIMIT
            THEN <<>>
       ELSE <<jpegBuffer>>]]

\* broadcastJpeg: one ws.send per client that is OPEN and not over the limit.
broadcastJpeg(s, jpegBuffer) ==
  [s EXCEPT !.outbox = [ws \in Clients |->
       IF ws \notin s.clients THEN <<>>
       ELSE IF s.sock[ws] # "open" THEN <<>>
       ELSE IF s.bufferedAmount[ws] > BUFFERED_LIMIT THEN <<>>
       ELSE <<jpegBuffer>>]]

\* encoder.writeFrame(rgba): null when the closure is closed (or stdin is
\* destroyed), else what proc.stdin.write returns; `accepted` is that value.
writeFrame(p, accepted) == IF p.closed THEN "null" ELSE accepted

\* The state after encoder.writeFrame returned ok: proc.stdin.write was
\* called unless ok is null, and a write that returned false has 'drain'
\* to come.
written(s, ok) ==
  IF ok = "null" THEN s
  ELSE IF ok = "false"
  THEN [s EXCEPT !.calls.write = @ + 1, !.encoder.drainPending = TRUE]
  ELSE [s EXCEPT !.calls.write = @ + 1]

\* A drain listener that leaves the flag as it is
onDrain_ignored(s) == s

\* The listener both servers register with encoder.onDrain
onDrain(s) == [s EXCEPT !.encoderBackpressure = FALSE]

\* configure that overwrites `encoder` without closing the old instance
configure_noClose(s, f, spawned) ==
  IF ~(s.encoder = Null \/ s.encoderW # f.w \/ s.encoderH # f.h) THEN s
  ELSE LET t == IF s.encoder = Null THEN s
                ELSE Release([s EXCEPT !.encoder = Null], s.encoder)
           u == [t EXCEPT !.encoderW = f.w, !.encoderH = f.h,
                          !.calls.spawn = @ + 1]
       IN IF spawned
          THEN [u EXCEPT !.encoder = NewProc(f.w, f.h)]
          ELSE u

\* configure that compares the width only
configure_widthOnly(s, f, spawned) ==
  IF ~(s.encoder = Null \/ s.encoderW # f.w) THEN s
  ELSE LET t == stopEncoder(s)
           u == [t EXCEPT !.encoderW = f.w, !.encoderH = f.h,
                          !.calls.spawn = @ + 1]
       IN IF spawned
          THEN [u EXCEPT !.encoder = NewProc(f.w, f.h)]
          ELSE stopEncoder(u)

\* configure that spawns the subprocess with the size recorded before
configure_previousSize(s, f, spawned) ==
  IF ~(s.encoder = Null \/ s.encoderW # f.w \/ s.encoderH # f.h) THEN s
  ELSE LET t == stopEncoder(s)
           u == [t EXCEPT !.encoderW = f.w, !.encoderH = f.h,
                          !.calls.spawn = @ + 1]
       IN IF spawned
          THEN [u EXCEPT !.encoder = NewProc(s.encoderW, s.encoderH)]
          ELSE stopEncoder(u)

\* The `if (!encoder || encoderW !== frame.width || ...)` block of the
\* capture callback; `spawned` is FALSE when createFfmpegMjpegEncoder throws.
configure(s, f, spawned) ==
  IF ~(s.encoder = Null \/ s.encoderW # f.w \/ s.encoderH # f.h) THEN s
  ELSE LET t == stopEncoder(s)
           u == [t EXCEPT !.encoderW = f.w, !.encoderH = f.h,
                          !.calls.spawn = @ + 1]
       IN IF spawned
          THEN [u EXCEPT !.encoder = NewProc(f.w, f.h)]
          ELSE stopEncoder(u)

\* The sharp path without its `if (isProcessing) return`
sharpPath_unguarded(s, f) ==
  IF ~sharpAvail THEN s
  ELSE [s EXCEPT !.isProcessing = TRUE, !.job = Append(@, f)]

\* The sharp path of the capture callback up to its await.
sharpPath(s, f) ==
  IF s.isProcessing THEN s
  ELSE IF ~sharpAvail THEN s   \* isProcessing = true; return; finally: false
  ELSE [s EXCEPT !.isProcessing = TRUE, !.job = Append(@, f)]

\* The capture callback of startSharedCapture, up to its first await.
onFrame(s, f, spawned, accepted) ==
  IF s.clients = {} THEN s
  ELSE IF capEncoder # "ffmpeg" THEN sharpPath(s, f)
  ELSE LET t == configure(s, f, spawned)
       IN IF t.encoder # Null /\ ~t.encoderBackpressure
          THEN LET ok == writeFrame(t.encoder, accepted)
                   u == written(t, ok)
               IN IF ok = "true" THEN u
                  ELSE IF ok = "false"
                  THEN [u EXCEPT !.encoderBackpressure = TRUE]
                  ELSE sharpPath(stopEncoder(u), f)
          ELSE sharpPath(t, f)

\* wss.on('connection'): attachClient(ws).  A closed WebSocket object has no
\* further events, so its identity is free for the next connection.
Connection(ws) ==
  /\ server = "ws"
  /\ sock[ws] = "idle"
  /\ LET t == attachClient([St EXCEPT !.sock[ws] = "open"], ws)
     IN Bounded(t) /\ Commit(t)

\* The peer starts the closing handshake or the socket breaks: readyState
\* leaves OPEN before any event is emitted.
Closing(ws) ==
  /\ server = "ws"
  /\ sock[ws] = "open"
  /\ Commit([St EXCEPT !.sock[ws] = "closing"])

\* ws.on('error'): detachClient(ws); 'close' follows.
OnError(ws) ==
  /\ server = "ws"
  /\ sock[ws] \in {"open", "closing"}
  /\ LET t == detachClient([St EXCEPT !.sock[ws] = "errored"], ws)
     IN Bounded(t) /\ Commit(t)

\* ws.on('close'): detachClient(ws).
OnClose(ws) ==
  /\ server = "ws"
  /\ sock[ws] \in {"open", "closing", "errored"}
  /\ LET t == detachClient([St EXCEPT !.sock[ws] = "idle",
                                     !.bufferedAmount[ws] = 0], ws)
     IN Bounded(t) /\ Commit(t)

\* capture.start().then(...) of the ScreenCapture `capture` refers to
CaptureStarted ==
  /\ server = "ws"
  /\ capture # Null
  /\ capture.start = "pending"
  /\ Commit([St EXCEPT !.capture.start = "ok"])

\* capture.start().then(...) of a ScreenCapture stopped meanwhile
StaleCaptureStarted ==
  /\ server = "ws"
  /\ staleStarts > 0
  /\ Commit([St EXCEPT !.staleStarts = @ - 1])

\* The body of capture.start().catch(...): stopSharedCapture(), ws.close()
\* for every client, clients.clear()
startFailed(s) ==
  LET t == stopSharedCapture(s)
  IN [t EXCEPT
       !.sock = [ws \in Clients |->
                   IF ws \in t.clients /\ t.sock[ws] = "open"
                   THEN "closing" ELSE t.sock[ws]],
       !.clients = {}]

\* capture.start().catch(...) of the ScreenCapture `capture` refers to.  The
\* failed object has no further callback, so stopping it leaves nothing stale.
CaptureStartFailed ==
  /\ server = "ws"
  /\ capture # Null
  /\ capture.start = "pending"
  /\ Commit([startFailed(St) EXCEPT !.staleStarts = staleStarts,
                                    !.lateFrames = lateFrames])

\* capture.start().catch(...) of a ScreenCapture stopped meanwhile
StaleCaptureStartFailed ==
  /\ server = "ws"
  /\ staleStarts > 0
  /\ Commit(startFailed([St EXCEPT !.staleStarts = @ - 1]))

\* The capture callback.  It runs for the ScreenCapture `capture` refers to
\* and for frames a stopped one had queued before stop().
RawFrame(f) ==
  /\ server = "ws"
  /\ capture # Null \/ lateFrames
  /\ \E spawned \in BOOLEAN, accepted \in {"true", "false"} :
       LET t == onFrame(St, f, spawned, accepted)
       IN Bounded(t) /\ Commit(t)

\* The catch block alone, the in-flight flag left set
frameFailed_keepGuard(s) == [s EXCEPT !.job = Tail(@)]

\* The catch and finally blocks of the sharp path in both servers when the
\* awaited pipeline rejects: console.error, isProcessing = false
frameFailed(s) == [s EXCEPT !.job = Tail(@), !.isProcessing = FALSE]

\* await pipeline.jpeg(...).toBuffer() resolves: broadcastJpeg, finally.
SharpDone ==
  /\ server = "ws"
  /\ job # <<>>
  /\ LET s == broadcastJpeg(St, Head(job))
     IN Commit([s EXCEPT !.job = Tail(@), !.isProcessing = FALSE])

\* await pipeline.jpeg(...).toBuffer() rejects: catch, finally.
SharpFailed ==
  /\ server = "ws"
  /\ job # <<>>
  /\ Commit(frameFailed(St))

\* proc.stdout.on('data') of subprocess p with a chunk that completes one
\* JPEG: `if (closed) return`, else tryParse calls onFrame = broadcastJpeg
onData(s, p) ==
  IF p.closed THEN s
  ELSE broadcastJpeg(s, [w |-> p.w, h |-> p.h])

\* proc.stdout.on('data') of the current encoder with a chunk that completes
\* one JPEG: tryParse calls onFrame = broadcastJpeg.  (The byte-level
\* demultiplexer is modelled on its own below.)  A released subprocess has
\* closed = true, so its data handler returns at once.
ProcStdout ==
  /\ server = "ws"
  /\ encoder # Null
  /\ ~encoder.closed
  /\ Commit(onData(St, encoder))

\* proc.stdout.on('data') of a released subprocess, which can still be
\* writing when close() is invoked on it
StaleProcStdout(i) ==
  /\ server = "ws"
  /\ i \in 1..Len(procs)
  /\ Commit(onData(St, procs[i]))

\* proc.on('close') / proc.on('error') of the current encoder: closed = true
ProcClose ==
  /\ server = "ws"
  /\ encoder # Null
  /\ ~encoder.closed
  /\ Commit([St EXCEPT !.encoder.closed = TRUE])

\* proc.stdin 'drain' of the current encoder: the listener registered by
\* encoder.onDrain
ProcDrain ==
  /\ server = "ws"
  /\ encoder # Null
  /\ encoder.drainPending
  /\ Commit(onDrain([St EXCEPT !.encoder.drainPending = FALSE]))

\* Sequence s without its i-th element
RemoveAt(s, i) == SubSeq(s, 1, i - 1) \o SubSeq(s, i + 1, Len(s))

\* proc.stdin 'drain' of a released subprocess: the same listener
StaleProcDrain(i) ==
  /\ server = "ws"
  /\ i \in 1..Len(procs)
  /\ procs[i].drainPending
  /\ LET p == [procs[i] EXCEPT !.drainPending = FALSE]
     IN Commit(Release(onDrain([St EXCEPT !.procs = RemoveAt(@, i)]), p))

\* ------------------------------------------ the WebRTC server, lines 1-432

\* videoSource.createTrack()
NewTrack == [stopped |-> FALSE]

\* pushWebRTCFrame: one videoSource.onFrame when a video source exists
pushWebRTCFrame(s, f) ==
  IF s.videoSource = Null THEN s
  ELSE [s EXCEPT !.pushed = Append(@, f)]

\* startSharedCapture of the WebRTC server, its synchronous part
rtcStartSharedCapture(s) ==
  IF s.capture # Null THEN s
  ELSE [s EXCEPT !.videoSource = [null |-> FALSE],
                 !.track = NewTrack,
                 !.capture = NewCapture,
                 !.calls.start = @ + 1]

\* stopSharedCapture of the WebRTC server
rtcStopSharedCapture(s) ==
  LET a == IF s.capture = Null THEN s
           ELSE [s EXCEPT
                  !.staleStarts = IF s.capture.start = "pending" THEN @ + 1 ELSE @,
                  !.lateFrames = TRUE,
                  !.capture = Null,
                  !.calls.stop = @ + 1]
      b == IF a.encoder = Null THEN a
           ELSE Release([a EXCEPT !.encoder = Null, !.calls.close = @ + 1],
                        close(a.encoder))
      \* track.stop() ends the track object, which the peer connections
      \* it was added to still hold
      c == IF b.track = Null THEN b
           ELSE [b EXCEPT !.peer = [id \in Clients |->
                   IF b.peer[id] = Null THEN Null
                   ELSE [b.peer[id] EXCEPT !.senders =
                           {[x EXCEPT !.stopped = TRUE] : x \in @}]]]
  IN [c EXCEPT !.track = Null,
               !.videoSource = Null,
               !.encoderW = 0,
               !.encoderH = 0,
               !.encoderBackpressure = FALSE]

\* The sharp path of the WebRTC capture callback up to its await; without
\* sharp the frame is converted and pushed synchronously.
rtcSharpPath(s, f) ==
  IF s.isProcessing THEN s
  ELSE IF ~sharpAvail THEN pushWebRTCFrame(s, f)
  ELSE [s EXCEPT !.isProcessing = TRUE, !.job = Append(@, f)]

\* The capture callback of the WebRTC server, up to its first await
rtcOnFrame(s, f, accepted) ==
  IF s.connections = {} THEN s
  ELSE IF capEncoder # "ffmpeg" THEN rtcSharpPath(s, f)
  ELSE LET t == IF ~(s.encoder = Null \/ s.encoderW # f.w \/ s.encoderH # f.h)
                THEN s
                ELSE LET c == IF s.encoder = Null THEN s
                              ELSE Release([s EXCEPT !.calls.close = @ + 1],
                                           close(s.encoder))
                     IN [c EXCEPT !.encoderW = f.w,
                                  !.encoderH = f.h,
                                  !.encoder = NewProc(f.w, f.h),
                                  !.calls.spawn = @ + 1]
       IN IF t.encoder # Null /\ ~t.encoderBackpressure
          THEN LET ok == writeFrame(t.encoder, accepted)
                   u == written(t, ok)
               IN IF ok = "false"
                  THEN [u EXCEPT !.encoderBackpressure = TRUE]
                  ELSE IF ok = "null"
                  THEN Release([u EXCEPT !.encoder = Null,
                                         !.calls.close = @ + 1],
                               close(u.encoder))
                  ELSE u
          ELSE t

\* One line of a session description: the prefix mungeSdp looks at, and how
\* many times the text
\* ";x-google-min-bitrate=..;x-google-max-bitrate=..;x-google-start-bitrate=.."
\* has been appended to it.
Line(prefix) == [prefix |-> prefix, appended |-> 0]

\* `b=AS:${bitrate}`
BandwidthLine == Line("b=AS")

\* lines.findIndex((line) => line.startsWith('m=video')), from 0, or -1
findVideo(lines) ==
  LET hits == {i \in 0..(Len(lines) - 1) : lines[i + 1].prefix = "m=video"}
  IN IF hits = {} THEN -1
     ELSE CHOOSE i \in hits : \A j \in hits : i <= j

\* lines.splice(at, 0, line)
splice(lines, at, line) ==
  SubSeq(lines, 1, at) \o <<line>> \o SubSeq(lines, at + 1, Len(lines))

\* mungeSdp that returns the description as it is
mungeSdp_identity(lines) == lines

\* mungeSdp(sdp, bitrate) on sdp.split('\r\n'); the result is what is
\* joined with '\r\n' again.
mungeSdp(lines) ==
  LET mVideoIndex == findVideo(lines)
  IN IF mVideoIndex = -1 THEN lines
     ELSE LET spliced == splice(lines, mVideoIndex + 1, BandwidthLine)
          IN [i \in 1..Len(spliced) |->
                IF spliced[i].prefix = "a=fmtp"
                THEN [spliced[i] EXCEPT !.appended = @ + 1]
                ELSE spliced[i]]

\* What io.on('connection') creates for one socket:
\*   signalingState     pc.signalingState
\*   remoteDescription  pc.remoteDescription is not null
\*   candidateQueue     const candidateQueue = []
\*   delivered          the candidates handed to pc.addIceCandidate, in order
\*   arrived            how many 'candidate' messages the socket has received;
\*                      the k-th candidate is the number k
\*   polling            the checkTrack interval has not been cleared
\*   senders            the tracks of pc.getSenders()
\*   negotiationNeeded  a 'negotiationneeded' event is due
\*   negotiating        the negotiate() invocations suspended at an await,
\*                      each with the sdp of its `offer`
\*   offers             'offer' messages emitted and not yet answered
\*   answering          the 'answer' handlers suspended at an await, each
\*                      with the sdp of its `answer`
\*   localDescription   the sdp last applied by pc.setLocalDescription
\*   offer              the sdp of the last 'offer' message emitted
\*   remoteSdp          the sdp last applied by pc.setRemoteDescription
NewPeer == [signalingState |-> "stable",
            remoteDescription |-> FALSE,
            candidateQueue |-> <<>>,
            delivered |-> <<>>,
            arrived |-> 0,
            polling |-> TRUE,
            senders |-> {},
            negotiationNeeded |-> FALSE,
            negotiating |-> <<>>,
            offers |-> 0,
            answering |-> <<>>,
            localDescription |-> <<>>,
            offer |-> <<>>,
            remoteSdp |-> <<>>]

\* The sdp pc.createOffer() resolves with and the sdp of the client's
\* answer: the server adds one video track, so each has a video section
\* with format parameters, and neither carries a bandwidth line or bitrate
\* parameters yet.
OfferSdp == <<Line("other"), Line("m=video"), Line("a=fmtp"), Line("other")>>
AnswerSdp == <<Line("other"), Line("m=video"), Line("other"), Line("a=fmtp")>>

\* io.on('connection'): connections.add(socket.id), startSharedCapture(),
\* new RTCPeerConnection, candidateQueue = [], setInterval(checkTrack)
RtcConnection(id) ==
  /\ server = "rtc"
  /\ sock[id] = "idle"
  /\ LET t == rtcStartSharedCapture([St EXCEPT !.sock[id] = "open",
                                             !.connections = @ \cup {id},
                                             !.peer[id] = NewPeer])
     IN Bounded(t) /\ Commit(t)

\* The 'disconnect' handler without clearInterval(checkTrack) and pc.close()
disconnect_keepTimer(s, id) ==
  LET t == [s EXCEPT !.sock[id] = "idle", !.connections = @ \ {id}]
  IN IF t.connections = {} THEN rtcStopSharedCapture(t) ELSE t

\* The body of socket.on('disconnect'): clearInterval, pc.close(),
\* connections.delete, stopSharedCapture when the set is empty.  The socket
\* has no further messages, the interval no further ticks, and the suspended
\* handlers of a closed peer connection resume into their catch blocks, so
\* nothing of the closure can act again.
disconnect(s, id) ==
  LET t == [s EXCEPT !.sock[id] = "idle", !.connections = @ \ {id},
                     !.peer[id] = Null]
  IN IF t.connections = {} THEN rtcStopSharedCapture(t) ELSE t

\* socket.on('disconnect')
RtcDisconnect(id) ==
  /\ server = "rtc"
  /\ sock[id] = "open"
  /\ LET u == disconnect(St, id)
     IN Bounded(u) /\ Commit(u)

\* negotiate() up to `await pc.createOffer()`
negotiate(p) ==
  IF p.signalingState # "stable" THEN p
  ELSE [p EXCEPT !.negotiating =
                   Append(@, [at |-> "createOffer", sdp |-> <<>>])]

\* One tick of the checkTrack interval that finds the shared track: addTrack
\* (a 'negotiationneeded' event becomes due), negotiate() when stable,
\* clearInterval.  A tick that finds no track changes nothing.
CheckTrack(id) ==
  /\ server = "rtc"
  /\ peer[id] # Null
  /\ peer[id].polling
  /\ track # Null
  /\ LET p == peer[id]
         a == IF track \in p.senders THEN p
              ELSE LET b == [p EXCEPT !.senders = @ \cup {track},
                                      !.negotiationNeeded = TRUE]
                   IN IF b.signalingState = "stable" THEN negotiate(b) ELSE b
     IN Commit([St EXCEPT !.peer[id] = [a EXCEPT !.polling = FALSE]])

\* pc.onnegotiationneeded = negotiate
OnNegotiationNeeded(id) ==
  /\ server = "rtc"
  /\ peer[id] # Null
  /\ peer[id].negotiationNeeded
  /\ Commit([St EXCEPT !.peer[id] =
               negotiate([peer[id] EXCEPT !.negotiationNeeded = FALSE])])

\* negotiate() resumes from `await pc.createOffer()`: mungeSdp, then
\* `await pc.setLocalDescription(offer)`; or the catch block.
OfferCreated(id, i, ok) ==
  /\ server = "rtc"
  /\ peer[id] # Null
  /\ i \in 1..Len(peer[id].negotiating)
  /\ peer[id].negotiating[i].at = "createOffer"
  /\ Commit([St EXCEPT !.peer[id].negotiating =
               IF ok THEN [@ EXCEPT ![i] = [at |-> "setLocalDescription",
                                            sdp |-> mungeSdp(OfferSdp)]]
               ELSE RemoveAt(@, i)])

\* negotiate() resumes from `await pc.setLocalDescription(offer)`:
\* socket.emit('offer', offer); or the catch block.  An offer can be applied
\* in stable and in have-local-offer.
LocalDescriptionSet(id, i, ok) ==
  /\ server = "rtc"
  /\ peer[id] # Null
  /\ i \in 1..Len(peer[id].negotiating)
  /\ peer[id].negotiating[i].at = "setLocalDescription"
  /\ LET offer == peer[id].negotiating[i]
         p == [peer[id] EXCEPT !.negotiating = RemoveAt(@, i)]
     IN Commit([St EXCEPT !.peer[id] =
                  IF ok THEN [p EXCEPT !.signalingState = "have-local-offer",
                                       !.localDescription = offer.sdp,
                                       !.offer = offer.sdp,
                                       !.offers = @ + 1]
                  ELSE p])

\* socket.on('answer') up to `await pc.setRemoteDescription(answer)`:
\* mungeSdp when the peer has a local offer.  The client answers an offer it
\* was sent.
Answer(id) ==
  /\ server = "rtc"
  /\ peer[id] # Null
  /\ peer[id].offers > 0
  /\ LET p == [peer[id] EXCEPT !.offers = @ - 1]
     IN Commit([St EXCEPT !.peer[id] =
                  IF p.signalingState = "have-local-offer"
                  THEN [p EXCEPT !.answering =
                          Append(@, [at |-> "setRemoteDescription",
                                     sdp |-> mungeSdp(AnswerSdp)])]
                  ELSE p])

\* The `while (candidateQueue.length > 0)` loop of the 'answer' handler i up
\* to its next `await pc.addIceCandidate(candidate)`, or to its end.
flush(p, i) ==
  IF p.candidateQueue = <<>>
  THEN [p EXCEPT !.answering = RemoveAt(@, i)]
  ELSE [p EXCEPT !.candidateQueue = Tail(@),
                 !.delivered = Append(@, Head(p.candidateQueue)),
                 !.answering[i].at = "addIceCandidate"]

\* The 'answer' handler resumes from `await pc.setRemoteDescription(answer)`:
\* the description is applied and the loop starts; or the catch block.  An
\* answer can be applied in have-local-offer only.
RemoteDescriptionSet(id, i, ok) ==
  /\ server = "rtc"
  /\ peer[id] # Null
  /\ i \in 1..Len(peer[id].answering)
  /\ peer[id].answering[i].at = "setRemoteDescription"
  /\ LET p == peer[id]
     IN Commit([St EXCEPT !.peer[id] =
                  IF ok /\ p.signalingState = "have-local-offer"
                  THEN flush([p EXCEPT !.signalingState = "stable",
                                       !.remoteDescription = TRUE,
                                       !.remoteSdp = p.answering[i].sdp], i)
                  ELSE [p EXCEPT !.answering = RemoveAt(@, i)]])

\* The 'answer' handler resumes from `await pc.addIceCandidate(candidate)`:
\* the loop goes on; or the catch block.
CandidateAdded(id, i, ok) ==
  /\ server = "rtc"
  /\ peer[id] # Null
  /\ i \in 1..Len(peer[id].answering)
  /\ peer[id].answering[i].at = "addIceCandidate"
  /\ Commit([St EXCEPT !.peer[id] =
               IF ok THEN flush(peer[id], i)
               ELSE [peer[id] EXCEPT !.answering = RemoveAt(@, i)]])

\* socket.on('candidate'): pc.addIceCandidate(candidate) when a remote
\* description is set, else candidateQueue.push(candidate).  Nothing follows
\* the handler's await but the end of the handler or its catch block.
Candidate(id) ==
  /\ server = "rtc"
  /\ peer[id] # Null
  /\ peer[id].arrived < MaxCandidates
  /\ LET p == [peer[id] EXCEPT !.arrived = @ + 1]
     IN Commit([St EXCEPT !.peer[id] =
                  IF p.remoteDescription
                  THEN [p EXCEPT !.delivered = Append(@, p.arrived)]
                  ELSE [p EXCEPT !.candidateQueue = Append(@, p.arrived)]])

\* capture.start() of the current ScreenCapture resolves; no handler runs
RtcCaptureStarted ==
  /\ server = "rtc"
  /\ capture # Null
  /\ capture.start = "pending"
  /\ Commit([St EXCEPT !.capture.start = "ok"])

\* capture.start() of a ScreenCapture stopped meanwhile resolves
RtcStaleCaptureStarted ==
  /\ server = "rtc"
  /\ staleStarts > 0
  /\ Commit([St EXCEPT !.staleStarts = @ - 1])

\* capture.start().catch(...) of the current ScreenCapture:
\* stopSharedCapture().  The failed object leaves nothing stale.
RtcCaptureStartFailed ==
  /\ server = "rtc"
  /\ capture # Null
  /\ capture.start = "pending"
  /\ Commit([rtcStopSharedCapture(St) EXCEPT !.staleStarts = staleStarts,
                                             !.lateFrames = lateFrames])

\* capture.start().catch(...) of a ScreenCapture stopped meanwhile
RtcStaleCaptureStartFailed ==
  /\ server = "rtc"
  /\ staleStarts > 0
  /\ LET t == rtcStopSharedCapture([St EXCEPT !.staleStarts = @ - 1])
     IN Bounded(t) /\ Commit(t)

\* The capture callback
RtcRawFrame(f) ==
  /\ server = "rtc"
  /\ capture # Null \/ lateFrames
  /\ \E accepted \in {"true", "false"} :
       LET t == rtcOnFrame(St, f, accepted)
       IN Bounded(t) /\ Commit(t)

\* await pipeline.raw().toBuffer() resolves: rgbaToI420, pushWebRTCFrame
RtcSharpDone ==
  /\ server = "rtc"
  /\ job # <<>>
  /\ LET s == pushWebRTCFrame(St, Head(job))
     IN Commit([s EXCEPT !.job = Tail(@), !.isProcessing = FALSE])

\* await pipeline.raw().toBuffer() rejects: catch, finally
RtcSharpFailed ==
  /\ server = "rtc"
  /\ job # <<>>
  /\ Commit(frameFailed(St))

\* proc.stdout.on('data') of subprocess p with a chunk that completes one
\* I420 frame: `if (closed) return`, else onFrame = pushWebRTCFrame
rtcOnData(s, p) ==
  IF p.closed THEN s
  ELSE pushWebRTCFrame(s, [w |-> p.w, h |-> p.h])

\* proc.stdout.on('data') of the current encoder with a chunk that completes
\* one I420 frame: onFrame = pushWebRTCFrame
RtcProcStdout ==
  /\ server = "rtc"
  /\ encoder # Null
  /\ ~encoder.closed
  /\ Commit(rtcOnData(St, encoder))

\* proc.stdout.on('data') of a released subprocess
RtcStaleProcStdout(i) ==
  /\ server = "rtc"
  /\ i \in 1..Len(procs)
  /\ Commit(rtcOnData(St, procs[i]))

\* proc.on('close') of the current encoder: closed = true
RtcProcClose ==
  /\ server = "rtc"
  /\ encoder # Null
  /\ ~encoder.closed
  /\ Commit([St EXCEPT !.encoder.closed = TRUE])

\* The subprocess of the current encoder emits 'error' (it could not be
\* spawned, or it could not be killed).  createFfmpegI420Encoder registers
\* no 'error' listener, so the EventEmitter throws the error and nothing
\* catches it.
RtcProcError ==
  /\ server = "rtc"
  /\ encoder # Null
  /\ ~encoder.closed
  /\ Commit([St EXCEPT !.crashed = TRUE])

\* proc.stdin 'drain' of the current encoder
RtcProcDrain ==
  /\ server = "rtc"
  /\ encoder # Null
  /\ encoder.drainPending
  /\ Commit(onDrain([St EXCEPT !.encoder.drainPending = FALSE]))

\* proc.stdin 'drain' of a released subprocess: the same listener
RtcStaleProcDrain(i) ==
  /\ server = "rtc"
  /\ i \in 1..Len(procs)
  /\ procs[i].drainPending
  /\ LET p == [procs[i] EXCEPT !.drainPending = FALSE]
     IN Commit(Release(onDrain([St EXCEPT !.procs = RemoveAt(@, i)]), p))

\* Neither pure function has been called
NotCalled ==
  /\ sdp = <<>>
  /\ munged = <<>>
  /\ rgba = Null
  /\ i420 = <<>>

\* No frame has a capture number
NotNumbered ==
  captured = 0 /\ pipe = <<>> /\ last = [c \in Clients |-> 0]

Init ==
  /\ server \in {"ws", "rtc"}
  /\ capEncoder \in {"ffmpeg", "sharp"}
  /\ sharpAvail \in BOOLEAN
  /\ clients = {}
  /\ connections = {}
  /\ sock = [c \in Clients |-> "idle"]
  /\ capture = Null
  /\ staleStarts = 0
  /\ lateFrames = FALSE
  /\ encoder = Null
  /\ encoderW = 0
  /\ encoderH = 0
  /\ encoderBackpressure = FALSE
  /\ isProcessing = FALSE
  /\ procs = <<>>
  /\ job = <<>>
  /\ track = Null
  /\ videoSource = Null
  /\ bufferedAmount = [c \in Clients |-> 0]
  /\ peer = [c \in Clients |-> Null]
  /\ crashed = FALSE
  /\ outbox = [c \in Clients |-> <<>>]
  /\ pushed = <<>>
  /\ calls = NoCalls
  /\ input = <<>>
  /\ jpegs = <<>>
  /\ planar = Null
  /\ fed = 0
  /\ buf = <<>>
  /\ emitted = <<>>
  /\ NotCalled
  /\ NotNumbered
  /\ worker = NewWorker

Next ==
  \/ \E ws \in Clients : Connection(ws)
  \/ \E ws \in Clients : Closing(ws)
  \/ \E ws \in Clients : OnError(ws)
  \/ \E ws \in Clients : OnClose(ws)
  \/ CaptureStarted
  \/ StaleCaptureStarted
  \/ CaptureStartFailed
  \/ StaleCaptureStartFailed
  \/ \E f \in {Res(0)} : RawFrame(f)
  \/ SharpDone
  \/ SharpFailed
  \/ ProcStdout
  \/ \E i \in 1..MaxProcs : StaleProcStdout(i)
  \/ ProcClose
  \/ ProcDrain
  \/ \E i \in 1..MaxProcs : StaleProcDrain(i)
  \/ \E id \in Clients : RtcConnection(id)
  \/ \E id \in Clients : RtcDisconnect(id)
  \/ RtcCaptureStarted
  \/ RtcStaleCaptureStarted
  \/ RtcCaptureStartFailed
  \/ RtcStaleCaptureStartFailed
  \/ \E f \in {Res(0)} : RtcRawFrame(f)
  \/ RtcSharpDone
  \/ RtcSharpFailed
  \/ RtcProcStdout
  \/ \E i \in 1..MaxProcs : RtcStaleProcStdout(i)
  \/ RtcProcClose
  \/ RtcProcError
  \/ RtcProcDrain
  \/ \E i \in 1..MaxProcs : RtcStaleProcDrain(i)

\* The shared session with any number of viewers coming and going while the
\* screen keeps one resolution.
Spec == Init /\ [][Next]_vars

EncNext ==
  \/ \E ws \in {1} : Connection(ws)
  \/ \E ws \in {1} : Closing(ws)
  \/ \E ws \in {1} : OnError(ws)
  \/ \E ws \in {1} : OnClose(ws)
  \/ CaptureStarted
  \/ StaleCaptureStarted
  \/ CaptureStartFailed
  \/ StaleCaptureStartFailed
  \/ \E f \in Resolutions : RawFrame(f)
  \/ SharpDone
  \/ SharpFailed
  \/ ProcStdout
  \/ \E i \in 1..MaxProcs : StaleProcStdout(i)
  \/ ProcClose
  \/ ProcDrain
  \/ \E i \in 1..MaxProcs : StaleProcDrain(i)
  \/ \E id \in {1} : RtcConnection(id)
  \/ \E id \in {1} : RtcDisconnect(id)
  \/ RtcCaptureStarted
  \/ RtcStaleCaptureStarted
  \/ RtcCaptureStartFailed
  \/ RtcStaleCaptureStartFailed
  \/ \E f \in Resolutions : RtcRawFrame(f)
  \/ RtcSharpDone
  \/ RtcSharpFailed
  \/ RtcProcStdout
  \/ \E i \in 1..MaxProcs : RtcStaleProcStdout(i)
  \/ RtcProcClose
  \/ RtcProcError
  \/ RtcProcDrain
  \/ \E i \in 1..MaxProcs : RtcStaleProcDrain(i)

\* The encoder pipeline: one viewer coming and going while the screen
\* changes its resolution.
SpecEnc == Init /\ [][EncNext]_vars

\* The socket of an attached client fills or flushes: ws.bufferedAmount
\* changes between two callbacks.
Buffered(ws, level) ==
  /\ server = "ws"
  /\ sock[ws] \in {"open", "closing"}
  /\ bufferedAmount[ws] # level
  /\ Commit([St EXCEPT !.bufferedAmount[ws] = level])

FanInit ==
  /\ Init
  /\ server = "ws"
  /\ capEncoder = "sharp"
  /\ sharpAvail = TRUE

FanNext ==
  \/ \E ws \in Clients : Connection(ws)
  \/ \E ws \in Clients : Closing(ws)
  \/ \E ws \in Clients : OnError(ws)
  \/ \E ws \in Clients : OnClose(ws)
  \/ CaptureStarted
  \/ StaleCaptureStarted
  \/ CaptureStartFailed
  \/ StaleCaptureStartFailed
  \/ \E f \in {Res(0)} : RawFrame(f)
  \/ SharpDone
  \/ SharpFailed
  \/ \E ws \in Clients, level \in BufferLevels : Buffered(ws, level)

\* The message-transport server with the in-process codec and viewers whose
\* sockets fill and flush.
SpecFanout == FanInit /\ [][FanNext]_vars

\* ------------------------------- server_ws.js: the frames in capture order

\* Raw frame f as the n-th frame the capture callback is called with
Numbered(f, n) == [w |-> f.w, h |-> f.h, n |-> n]

\* The frames inside the current encoder after the capture callback ended in
\* state t for frame n: none when the encoder is new or gone, and frame n
\* when proc.stdin.write was called with it (a write that returns false has
\* queued its data all the same).
piped(t, n) ==
  LET kept == IF t.encoder = Null \/ t.calls.spawn >= 1 THEN <<>> ELSE pipe
  IN IF t.calls.write >= 1 THEN Append(kept, n) ELSE kept

\* The frame each client was sent last, after a callback that ended in s
sentLast(s) ==
  [ws \in Clients |->
     IF s.outbox[ws] = <<>> THEN last[ws] ELSE s.outbox[ws][Len(s.outbox[ws])].n]

\* The capture callback, called with its next frame
NumberedRawFrame(f) ==
  /\ server = "ws"
  /\ capture # Null \/ lateFrames
  /\ captured < MaxFrames
  /\ \E spawned \in BOOLEAN, accepted \in {"true", "false"} :
       LET n == captured + 1
           t == onFrame(St, Numbered(f, n), spawned, accepted)
       IN /\ Bounded(t)
          /\ Apply(t)
          /\ captured' = n
          /\ pipe' = piped(t, n)
          /\ last' = last

\* await pipeline.jpeg(...).toBuffer() resolves with the JPEG of the frame
\* the pipeline was given: broadcastJpeg, finally.
NumberedSharpDone ==
  /\ server = "ws"
  /\ job # <<>>
  /\ LET s == broadcastJpeg(St, Head(job))
     IN /\ Apply([s EXCEPT !.job = Tail(@), !.isProcessing = FALSE])
        /\ last' = sentLast(s)
        /\ UNCHANGED <<captured, pipe>>

\* proc.stdout.on('data') of the current encoder with a chunk that completes
\* the JPEG of the oldest frame inside it: a subprocess encodes its input
\* in the order it reads it.
NumberedProcStdout ==
  /\ server = "ws"
  /\ encoder # Null
  /\ ~encoder.closed
  /\ pipe # <<>>
  /\ LET s == broadcastJpeg(St, Numbered(encoder, Head(pipe)))
     IN /\ Apply(s)
        /\ last' = sentLast(s)
        /\ pipe' = Tail(pipe)
        /\ UNCHANGED captured

OrderInit ==
  /\ Init
  /\ server = "ws"

OrderNext ==
  \/ \E ws \in Clients : Connection(ws)
  \/ CaptureStarted
  \/ \E f \in Resolutions : NumberedRawFrame(f)
  \/ NumberedSharpDone
  \/ SharpFailed
  \/ NumberedProcStdout
  \/ ProcClose
  \/ ProcDrain
  \/ \E i \in 1..MaxProcs : StaleProcDrain(i)

\* The message-transport server with viewers that stay connected, every raw
\* frame carrying the number it was captured with.
SpecOrder == OrderInit /\ [][OrderNext]_vars

\* ------------------------------------ the WebRTC server: the polling timers

TrackInit ==
  /\ Init
  /\ server = "rtc"
  /\ capEncoder = "ffmpeg"
  /\ sharpAvail = TRUE

TrackNext ==
  \/ \E id \in Clients : RtcConnection(id)
  \/ \E id \in Clients : RtcDisconnect(id)
  \/ RtcCaptureStarted
  \/ RtcStaleCaptureStarted
  \/ RtcCaptureStartFailed
  \/ RtcStaleCaptureStartFailed
  \/ \E id \in Clients : CheckTrack(id)
  \/ \E id \in Clients : OnNegotiationNeeded(id)
  \/ \E id \in Clients, i \in 1..MaxInFlight, ok \in BOOLEAN : OfferCreated(id, i, ok)
  \/ \E id \in Clients, i \in 1..MaxInFlight, ok \in BOOLEAN : LocalDescriptionSet(id, i, ok)

\* The interval of a connected peer ticks every 100 ms until it is cleared
TrackFairness == \A id \in Clients : WF_vars(CheckTrack(id))

\* The peers of the media-transport server coming and going, each with its
\* polling timer, up to the offer; no frame is captured.
SpecTrack == TrackInit /\ [][TrackNext]_vars /\ TrackFairness

\* ---------------------------------------------------------------------
\* Both servers: the external encoder while a viewer stays connected
\* ---------------------------------------------------------------------

StallInit ==
  /\ Init
  /\ capEncoder = "ffmpeg"

\* One viewer connects and stays; frames arrive, the subprocess reads,
\* writes and may exit
StallNext ==
  \/ \E ws \in {1} : Connection(ws)
  \/ CaptureStarted
  \/ \E f \in Resolutions : RawFrame(f)
  \/ SharpDone
  \/ SharpFailed
  \/ ProcStdout
  \/ \E i \in 1..MaxProcs : StaleProcStdout(i)
  \/ ProcClose
  \/ ProcDrain
  \/ \E i \in 1..MaxProcs : StaleProcDrain(i)
  \/ \E id \in {1} : RtcConnection(id)
  \/ RtcCaptureStarted
  \/ \E f \in Resolutions : RtcRawFrame(f)
  \/ RtcProcStdout
  \/ \E i \in 1..MaxProcs : RtcStaleProcStdout(i)
  \/ RtcProcClose
  \/ RtcProcDrain
  \/ \E i \in 1..MaxProcs : RtcStaleProcDrain(i)

\* 'drain' of a subprocess that is still running
LiveDrain ==
  /\ encoder # Null
  /\ ~encoder.closed
  /\ ProcDrain \/ RtcProcDrain

\* A frame of the size the screen had when the encoder was spawned: the
\* screen may change its resolution, nothing makes it do so
SameSizeFrame ==
  \E f \in Resolutions :
    /\ encoder = Null \/ (f.w = encoderW /\ f.h = encoderH)
    /\ RawFrame(f) \/ RtcRawFrame(f)

\* The capture keeps delivering frames, a running subprocess keeps reading
\* its stdin, and an encode by sharp settles
StallFairness ==
  /\ WF_vars(SameSizeFrame)
  /\ WF_vars(LiveDrain)
  /\ WF_vars(SharpDone)

\* The encoder pipeline of a session whose viewer stays connected
SpecStall == StallInit /\ [][StallNext]_vars /\ StallFairness

SignalInit ==
  /\ Init
  /\ server = "rtc"
  /\ capEncoder = "ffmpeg"
  /\ sharpAvail = TRUE

SignalNext ==
  \/ \E id \in {1} : RtcConnection(id)
  \/ \E id \in {1} : RtcDisconnect(id)
  \/ RtcCaptureStarted
  \/ RtcStaleCaptureStarted
  \/ RtcCaptureStartFailed
  \/ RtcStaleCaptureStartFailed
  \/ \E id \in {1} : CheckTrack(id)
  \/ \E id \in {1} : OnNegotiationNeeded(id)
  \/ \E id \in {1}, i \in 1..MaxInFlight, ok \in BOOLEAN : OfferCreated(id, i, ok)
  \/ \E id \in {1}, i \in 1..MaxInFlight, ok \in BOOLEAN : LocalDescriptionSet(id, i, ok)
  \/ \E id \in {1} : Answer(id)
  \/ \E id \in {1}, i \in 1..MaxInFlight, ok \in BOOLEAN : RemoteDescriptionSet(id, i, ok)
  \/ \E id \in {1}, i \in 1..MaxInFlight, ok \in BOOLEAN : CandidateAdded(id, i, ok)
  \/ \E id \in {1} : Candidate(id)

\* The signalling of one peer of the media-transport server: the shared
\* session starts and stops with it, no frame is captured.
SpecSignal == SignalInit /\ [][SignalNext]_vars

\* An awaited pc.setRemoteDescription or pc.addIceCandidate settles, one
\* way or the other
FlushFairness ==
  /\ WF_vars(\E id \in {1}, i \in 1..MaxInFlight, ok \in BOOLEAN :
               RemoteDescriptionSet(id, i, ok))
  /\ WF_vars(\E id \in {1}, i \in 1..MaxInFlight, ok \in BOOLEAN :
               CandidateAdded(id, i, ok))

\* The signalling of one peer with promises that settle
SpecFlush == SignalInit /\ [][SignalNext]_vars /\ FlushFairness

\* ----------------------------------------- the WebRTC server, mungeSdp

\* The line prefixes mungeSdp tells apart, and one for every other line
Prefixes == {"m=video", "m=audio", "a=fmtp", "b=AS", "other"}

\* All session descriptions of n lines, none rewritten yet
RECURSIVE Sdps(_)
Sdps(n) ==
  IF n = 0 THEN {<<>>}
  ELSE {Append(x, Line(y)) : x \in Sdps(n - 1), y \in Prefixes}

\* Any session description is about to be rewritten; split never returns
\* an empty array.
SdpInit ==
  /\ server = "rtc"
  /\ capEncoder = "ffmpeg"
  /\ sharpAvail = TRUE
  /\ clients = {}
  /\ connections = {}
  /\ sock = [c \in Clients |-> "idle"]
  /\ capture = Null
  /\ staleStarts = 0
  /\ lateFrames = FALSE
  /\ encoder = Null
  /\ encoderW = 0
  /\ encoderH = 0
  /\ encoderBackpressure = FALSE
  /\ isProcessing = FALSE
  /\ procs = <<>>
  /\ job = <<>>
  /\ track = Null
  /\ videoSource = Null
  /\ bufferedAmount = [c \in Clients |-> 0]
  /\ peer = [c \in Clients |-> Null]
  /\ crashed = FALSE
  /\ outbox = [c \in Clients |-> <<>>]
  /\ pushed = <<>>
  /\ calls = NoCalls
  /\ input = <<>>
  /\ jpegs = <<>>
  /\ planar = Null
  /\ fed = 0
  /\ buf = <<>>
  /\ emitted = <<>>
  /\ sdp \in UNION {Sdps(n) : n \in 1..MaxSdp}
  /\ munged = <<>>
  /\ rgba = Null
  /\ i420 = <<>>
  /\ NotNumbered
  /\ worker = NewWorker

\* The call mungeSdp(sdp, WEBRTC_BITRATE)
Munge ==
  /\ munged = <<>>
  /\ munged' = <<mungeSdp(sdp)>>
  /\ UNCHANGED <<sdp, rgba, i420>>
  /\ UNCHANGED sessionVars
  /\ UNCHANGED demuxVars
  /\ UNCHANGED orderVars
  /\ UNCHANGED viewerVars

SdpNext == Munge

\* mungeSdp applied to any session description
SpecSdp == SdpInit /\ [][SdpNext]_vars

\* ---------------------------------------- the WebRTC server, rgbaToI420

\* A store into a Uint8Array of `len` elements that starts at `base` of the
\* buffer: the value modulo 256, and nothing when idx is outside the array
store(arr, base, len, idx, v) ==
  IF idx < len THEN [arr EXCEPT ![base + idx + 1] = v % 256] ELSE arr

\* The Y sample with the offset of 16 of studio-range video added
luma_offset16(r, g, b) == ((r * 77 + g * 150 + b * 29) \div 256) + 16

\* (r * 77 + g * 150 + b * 29) >> 8
luma(r, g, b) == (r * 77 + g * 150 + b * 29) \div 256

\* The U sample computed without the offset of 128
chromaU_noOffset(r, g, b) == ((0 - r) * 43 - g * 84 + b * 127) \div 256

\* ((-r * 43 - g * 84 + b * 127) >> 8) + 128
chromaU(r, g, b) == (((0 - r) * 43 - g * 84 + b * 127) \div 256) + 128

\* ((r * 127 - g * 106 - b * 21) >> 8) + 128
chromaV(r, g, b) == ((r * 127 - g * 106 - b * 21) \div 256) + 128

\* The two loops of rgbaToI420 from pixel yIdx on, row by row; i420 is the
\* buffer so far and uvIdx the next chroma sample.
RECURSIVE convert(_, _, _, _, _, _)
convert(width, height, rgba_, i420_, yIdx, uvIdx) ==
  IF yIdx >= width * height THEN i420_
  ELSE LET row == yIdx \div width
           col == yIdx % width
           ySize == width * height
           uvSize == (width \div 2) * (height \div 2)
           p == row * width * 4 + col * 4
           r == rgba_[p + 1]
           g == rgba_[p + 2]
           b == rgba_[p + 3]
           withY == store(i420_, 0, ySize, yIdx, luma(r, g, b))
           isUv == row % 2 = 0 /\ col % 2 = 0
           withU == store(withY, ySize, uvSize, uvIdx, chromaU(r, g, b))
           withV == store(withU, ySize + uvSize, uvSize, uvIdx,
                          chromaV(r, g, b))
       IN IF isUv
          THEN convert(width, height, rgba_, withV, yIdx + 1, uvIdx + 1)
          ELSE convert(width, height, rgba_, withY, yIdx + 1, uvIdx)

\* rgbaToI420(width, height, rgba): a zeroed Uint8Array of
\* ySize + uvSize * 2 elements, filled by the loops
rgbaToI420(width, height, rgba_) ==
  LET ySize == width * height
      uvSize == (width \div 2) * (height \div 2)
  IN convert(width, height, rgba_,
             [i \in 1..(ySize + uvSize * 2) |-> 0], 0, 0)

\* The pixels the converter is given, as R, G, B, A: neutral gray, black,
\* white, red and blue
Gray == <<128, 128, 128, 255>>
Colors == {Gray, <<0, 0, 0, 255>>, <<255, 255, 255, 255>>,
           <<255, 0, 0, 255>>, <<0, 0, 255, 255>>}

\* How two colours are laid out over a frame
Layouts == {"uniform", "rows", "columns", "checker"}

\* The colour of the pixel at row, col
colorAt(layout, c1, c2, row, col) ==
  CASE layout = "uniform" -> c1
    [] layout = "rows" -> IF row % 2 = 0 THEN c1 ELSE c2
    [] layout = "columns" -> IF col % 2 = 0 THEN c1 ELSE c2
    [] layout = "checker" -> IF (row + col) % 2 = 0 THEN c1 ELSE c2

\* An RGBA buffer of width * height * 4 bytes, row by row
Frame(width, height, layout, c1, c2) ==
  [width |-> width, height |-> height,
   rgba |-> [i \in 1..(width * height * 4) |->
              LET k == (i - 1) \div 4
              IN colorAt(layout, c1, c2, k \div width, k % width)
                   [((i - 1) % 4) + 1]]]

\* Any frame of up to MaxDim by MaxDim pixels is about to be converted
ColorInit ==
  /\ server = "rtc"
  /\ capEncoder = "ffmpeg"
  /\ sharpAvail = TRUE
  /\ clients = {}
  /\ connections = {}
  /\ sock = [c \in Clients |-> "idle"]
  /\ capture = Null
  /\ staleStarts = 0
  /\ lateFrames = FALSE
  /\ encoder = Null
  /\ encoderW = 0
  /\ encoderH = 0
  /\ encoderBackpressure = FALSE
  /\ isProcessing = FALSE
  /\ procs = <<>>
  /\ job = <<>>
  /\ track = Null
  /\ videoSource = Null
  /\ bufferedAmount = [c \in Clients |-> 0]
  /\ peer = [c \in Clients |-> Null]
  /\ crashed = FALSE
  /\ outbox = [c \in Clients |-> <<>>]
  /\ pushed = <<>>
  /\ calls = NoCalls
  /\ input = <<>>
  /\ jpegs = <<>>
  /\ planar = Null
  /\ fed = 0
  /\ buf = <<>>
  /\ emitted = <<>>
  /\ sdp = <<>>
  /\ munged = <<>>
  /\ rgba \in {Frame(w, h, l, c1, c2) :
                 w \in 1..MaxDim, h \in 1..MaxDim, l \in Layouts,
                 c1 \in Colors, c2 \in Colors}
  /\ i420 = <<>>
  /\ NotNumbered
  /\ worker = NewWorker

\* The call rgbaToI420(width, height, rgba)
Convert ==
  /\ i420 = <<>>
  /\ i420' = <<rgbaToI420(rgba.width, rgba.height, rgba.rgba)>>
  /\ UNCHANGED <<sdp, munged, rgba>>
  /\ UNCHANGED sessionVars
  /\ UNCHANGED demuxVars
  /\ UNCHANGED orderVars
  /\ UNCHANGED viewerVars

ColorNext == Convert

\* rgbaToI420 applied to any frame
SpecColor == ColorInit /\ [][ColorNext]_vars

\* The values of an element of the Uint8Array a frame's rgba is
Channel == 0..255

\* A frame of 2 by 2 pixels of one colour with any red and green is about
\* to be converted
PixelInit ==
  /\ server = "rtc"
  /\ capEncoder = "ffmpeg"
  /\ sharpAvail = TRUE
  /\ clients = {}
  /\ connections = {}
  /\ sock = [c \in Clients |-> "idle"]
  /\ capture = Null
  /\ staleStarts = 0
  /\ lateFrames = FALSE
  /\ encoder = Null
  /\ encoderW = 0
  /\ encoderH = 0
  /\ encoderBackpressure = FALSE
  /\ isProcessing = FALSE
  /\ procs = <<>>
  /\ job = <<>>
  /\ track = Null
  /\ videoSource = Null
  /\ bufferedAmount = [c \in Clients |-> 0]
  /\ peer = [c \in Clients |-> Null]
  /\ crashed = FALSE
  /\ outbox = [c \in Clients |-> <<>>]
  /\ pushed = <<>>
  /\ calls = NoCalls
  /\ input = <<>>
  /\ jpegs = <<>>
  /\ planar = Null
  /\ fed = 0
  /\ buf = <<>>
  /\ emitted = <<>>
  /\ sdp = <<>>
  /\ munged = <<>>
  /\ \E r \in Channel, g \in Channel :
       rgba = Frame(2, 2, "uniform", <<r, g, 0, 255>>, <<r, g, 0, 255>>)
  /\ i420 = <<>>
  /\ NotNumbered
  /\ worker = NewWorker

\* rgbaToI420 applied to a frame of one colour
SpecPixel == PixelInit /\ [][ColorNext]_vars

\* ---------------------------------------------------------------------
\* examples/public/decoder-worker.js: the viewer's decoder worker
\* ---------------------------------------------------------------------

\* The `while (pending)` loop from its test on, up to the next await or to
\* the finally block
drain(w) ==
  IF w.pending # 0
  THEN [w EXCEPT !.inflight = Append(@, w.pending), !.pending = 0]
  ELSE [w EXCEPT !.decoding = FALSE]

\* self.onmessage for {type: 'init', canvas}
onInit(w) == [w EXCEPT !.ctx = TRUE]

\* self.onmessage for {type: 'frame', data}: pending = buf;
\* if (decoding) return; decoding = true; the loop runs to its first await
onFrameMessage(w) ==
  LET a == [w EXCEPT !.received = @ + 1, !.pending = w.received + 1]
  IN IF a.decoding THEN a
     ELSE drain([a EXCEPT !.decoding = TRUE])

\* await decodeAndDraw(next) settles.  Fulfilled: the bitmap is drawn when
\* there is a canvas, {type: 'frame'} is posted and the loop goes on.
\* Rejected: the catch block posts {type: 'error'}, finally decoding = false.
onDecoded(w, ok) ==
  LET a == [w EXCEPT !.inflight = Tail(@)]
  IN IF ok
     THEN drain([a EXCEPT
                  !.drawn = IF w.ctx THEN Append(@, Head(w.inflight)) ELSE @,
                  !.posted = Append(@, "frame")])
     ELSE [a EXCEPT !.posted = Append(@, "error"), !.decoding = FALSE]

\* A callback of the worker that ended in state w
Worker(w) ==
  /\ worker' = w
  /\ UNCHANGED sessionVars
  /\ UNCHANGED demuxVars
  /\ UNCHANGED pureVars
  /\ UNCHANGED orderVars

\* The page transfers its canvas
InitMessage ==
  /\ ~worker.ctx
  /\ Worker(onInit(worker))

\* The page forwards a frame it received from the server
FrameMessage ==
  /\ worker.received < MaxMessages
  /\ Worker(onFrameMessage(worker))

\* createImageBitmap resolves, or it rejects (a frame that is no JPEG);
\* without a canvas decodeAndDraw returns at once
Decoded(ok) ==
  /\ worker.inflight # <<>>
  /\ ok \/ worker.ctx
  /\ Worker(onDecoded(worker, ok))

\* A viewer of the shared-session WS server
WorkerInit ==
  /\ Init
  /\ server = "ws"
  /\ capEncoder = "ffmpeg"
  /\ sharpAvail = TRUE

WorkerNext ==
  \/ InitMessage
  \/ FrameMessage
  \/ \E ok \in BOOLEAN : Decoded(ok)

\* The decoder worker receiving up to MaxMessages frames
SpecWorker == WorkerInit /\ [][WorkerNext]_vars

\* ------------------- server_ws.js, createFfmpegMjpegEncoder: the demultiplexer

\* The byte values the demultiplexer tells apart: 0xFF, 0xD8, 0xD9 and one
\* other value.
Bytes == {0, 216, 217, 255}
SOI == <<255, 216>>     \* Buffer.from([0xff, 0xd8])
EOI == <<255, 217>>     \* Buffer.from([0xff, 0xd9])

\* if (buf.length > 20 * 1024 * 1024)
BUF_CEILING == 20 * 1024 * 1024

\* buf.subarray(from, to) and buf.subarray(from), offsets from 0
subarray(b, from, to) == SubSeq(b, from + 1, to)
subarrayFrom(b, from) == SubSeq(b, from + 1, Len(b))

\* buf.indexOf(marker, from): the least offset >= from (from 0) at which the
\* two-byte marker starts, or -1
indexOf(b, marker, from) ==
  LET hits == {i \in from..(Len(b) - 2) :
                 b[i + 1] = marker[1] /\ b[i + 2] = marker[2]}
  IN IF hits = {} THEN -1
     ELSE CHOOSE i \in hits : \A j \in hits : i <= j

\* tryParse whose frame stops one byte short of the end marker's last byte
RECURSIVE tryParse_shortFrame(_, _)
tryParse_shortFrame(b, out) ==
  LET start == indexOf(b, SOI, 0)
      end == indexOf(b, EOI, start + 2)
  IN IF start < 0
     THEN [buf |-> IF Len(b) > 2 THEN subarrayFrom(b, Len(b) - 2) ELSE b,
           out |-> out]
     ELSE IF end < 0
     THEN [buf |-> IF start > 0 THEN subarrayFrom(b, start) ELSE b,
           out |-> out]
     ELSE tryParse_shortFrame(subarrayFrom(b, end + 2),
                              Append(out, subarray(b, start, end + 1)))

\* tryParse that returns after the first frame it hands over
tryParse_oneFrame(b, out) ==
  LET start == indexOf(b, SOI, 0)
      end == indexOf(b, EOI, start + 2)
  IN IF start < 0
     THEN [buf |-> IF Len(b) > 2 THEN subarrayFrom(b, Len(b) - 2) ELSE b,
           out |-> out]
     ELSE IF end < 0
     THEN [buf |-> IF start > 0 THEN subarrayFrom(b, start) ELSE b,
           out |-> out]
     ELSE [buf |-> subarrayFrom(b, end + 2),
           out |-> Append(out, subarray(b, start, end + 2))]

\* tryParse: the loop that cuts complete frames out of buf and hands each to
\* onFrame; the result is the buffer left and the frames handed over.
RECURSIVE tryParse(_, _)
tryParse(b, out) ==
  LET start == indexOf(b, SOI, 0)
      end == indexOf(b, EOI, start + 2)
  IN IF start < 0
     THEN [buf |-> IF Len(b) > 2 THEN subarrayFrom(b, Len(b) - 2) ELSE b,
           out |-> out]
     ELSE IF end < 0
     THEN [buf |-> IF start > 0 THEN subarrayFrom(b, start) ELSE b,
           out |-> out]
     ELSE tryParse(subarrayFrom(b, end + 2),
                   Append(out, subarray(b, start, end + 2)))

\* A 'data' handler that forgets what it had buffered
concat_chunkOnly(b, chunk) == chunk

\* buf = buf.length === 0 ? chunk : Buffer.concat([buf, chunk], ...)
concat(b, chunk) == IF Len(b) = 0 THEN chunk ELSE b \o chunk

\* The body of the 'data' handler of an instance that is not closed, for
\* a ceiling: append the chunk, cut a buffer over the ceiling to its last
\* two bytes, then tryParse()
onStdoutData(b0, chunk, out, ceiling) ==
  LET b == concat(b0, chunk)
      c == IF Len(b) > ceiling THEN subarrayFrom(b, Len(b) - 2) ELSE b
  IN tryParse(c, out)

\* The next n bytes of the subprocess's output arrive as one chunk at a
\* handler with the given ceiling
Chunk(n, ceiling) ==
  /\ n \in 1..(Len(input) - fed)
  /\ LET r == onStdoutData(buf, SubSeq(input, fed + 1, fed + n), emitted, ceiling)
     IN /\ buf' = r.buf
        /\ emitted' = r.out
  /\ fed' = fed + n
  /\ UNCHANGED <<input, jpegs, planar>>
  /\ UNCHANGED sessionVars
  /\ UNCHANGED pureVars
  /\ UNCHANGED orderVars
  /\ UNCHANGED viewerVars

\* proc.stdout.on('data') with a ceiling of MaxBuf bytes
CappedData(n) == Chunk(n, MaxBuf)

\* proc.stdout.on('data') of an instance that is not closed: the next n
\* bytes of the subprocess's output arrive as one chunk.
Data(n) == Chunk(n, BUF_CEILING)

\* All byte sequences of length n
RECURSIVE Streams(_)
Streams(n) ==
  IF n = 0 THEN {<<>>}
  ELSE {Append(x, y) : x \in Streams(n - 1), y \in Bytes}

\* A spawned MJPEG encoder instance with any output ahead of it
DemuxInit ==
  /\ server = "ws"
  /\ capEncoder = "ffmpeg"
  /\ sharpAvail = TRUE
  /\ clients = {}
  /\ connections = {}
  /\ sock = [c \in Clients |-> "idle"]
  /\ capture = Null
  /\ staleStarts = 0
  /\ lateFrames = FALSE
  /\ encoder = Null
  /\ encoderW = 0
  /\ encoderH = 0
  /\ encoderBackpressure = FALSE
  /\ isProcessing = FALSE
  /\ procs = <<>>
  /\ job = <<>>
  /\ track = Null
  /\ videoSource = Null
  /\ bufferedAmount = [c \in Clients |-> 0]
  /\ peer = [c \in Clients |-> Null]
  /\ crashed = FALSE
  /\ outbox = [c \in Clients |-> <<>>]
  /\ pushed = <<>>
  /\ calls = NoCalls
  /\ input \in UNION {Streams(n) : n \in 0..MaxLen}
  /\ jpegs = <<>>
  /\ planar = Null
  /\ fed = 0
  /\ buf = <<>>
  /\ emitted = <<>>
  /\ NotCalled
  /\ NotNumbered
  /\ worker = NewWorker

DemuxNext == \E n \in 1..MaxLen : Data(n)

\* The demultiplexer fed any byte stream in any chunking
SpecDemux == DemuxInit /\ [][DemuxNext]_vars

\* The handler with its ceiling scaled to MaxBuf bytes
CappedNext == \E n \in 1..MaxLen : CappedData(n)

\* The demultiplexer with a ceiling that streams of MaxLen bytes exceed
SpecCapped == DemuxInit /\ [][CappedNext]_vars

\* What ffmpeg writes between the markers of a frame: nothing, a byte, a
\* lone 0xFF, and a payload that holds the bytes of the end marker
Payloads == {<<>>, <<0>>, <<255>>, <<255, 217>>}

\* What precedes a frame in the stream: nothing, a byte, a lone 0xFF, and
\* junk that holds the bytes of the start marker
Junk == {<<>>, <<0>>, <<255>>, <<255, 216>>}

\* One frame of the stream with the junk bytes before it
Pieces == {[junk |-> j, frame |-> SOI \o p \o EOI] : j \in Junk, p \in Payloads}

\* All sequences of k pieces
RECURSIVE PieceSeqs(_)
PieceSeqs(k) ==
  IF k = 0 THEN {<<>>}
  ELSE {Append(x, y) : x \in PieceSeqs(k - 1), y \in Pieces}

\* The bytes of a sequence of pieces
RECURSIVE Bytestream(_)
Bytestream(ps) ==
  IF ps = <<>> THEN <<>>
  ELSE Bytestream(SubSeq(ps, 1, Len(ps) - 1))
         \o ps[Len(ps)].junk \o ps[Len(ps)].frame

\* A spawned MJPEG encoder instance about to write up to MaxJpegs frames
MjpegInit ==
  /\ server = "ws"
  /\ capEncoder = "ffmpeg"
  /\ sharpAvail = TRUE
  /\ clients = {}
  /\ connections = {}
  /\ sock = [c \in Clients |-> "idle"]
  /\ capture = Null
  /\ staleStarts = 0
  /\ lateFrames = FALSE
  /\ encoder = Null
  /\ encoderW = 0
  /\ encoderH = 0
  /\ encoderBackpressure = FALSE
  /\ isProcessing = FALSE
  /\ procs = <<>>
  /\ job = <<>>
  /\ track = Null
  /\ videoSource = Null
  /\ bufferedAmount = [c \in Clients |-> 0]
  /\ peer = [c \in Clients |-> Null]
  /\ crashed = FALSE
  /\ outbox = [c \in Clients |-> <<>>]
  /\ pushed = <<>>
  /\ calls = NoCalls
  /\ jpegs \in UNION {PieceSeqs(k) : k \in 0..MaxJpegs}
  /\ input = Bytestream(jpegs)
  /\ planar = Null
  /\ fed = 0
  /\ buf = <<>>
  /\ emitted = <<>>
  /\ NotCalled
  /\ NotNumbered
  /\ worker = NewWorker

\* A chunk can be as long as the rest of the stream
MjpegNext == \E n \in 1..Len(input) : Data(n)

\* The demultiplexer fed a stream of frames in any chunking
SpecMjpeg == MjpegInit /\ [][MjpegNext]_vars

\* ---------------------------------------------------------------------
\* The WebRTC server: createFfmpegI420Encoder's stdout handler
\* ---------------------------------------------------------------------

\* Values of MAX_WIDTH (CAP_MAX_WIDTH): no scaling, and scaling to 2 columns
MaxWidths == {0, 2}

\* Math.round(a / b) for positive a and b
round(a, b) == (2 * a + b) \div (2 * b)

\* targetW = maxWidth > 0 && width > maxWidth ? maxWidth : width
targetW(width, height, maxWidth) ==
  IF maxWidth > 0 /\ width > maxWidth THEN maxWidth ELSE width

\* targetH = maxWidth > 0 && width > maxWidth
\*             ? Math.max(1, Math.round((height * maxWidth) / width)) : height
targetH(width, height, maxWidth) ==
  IF maxWidth > 0 /\ width > maxWidth
  THEN LET r == round(height * maxWidth, width) IN IF r < 1 THEN 1 ELSE r
  ELSE height

\* Twice frameSize = targetW * targetH + (targetW * targetH) / 2, which is
\* a number and not an integer when targetW * targetH is odd
frameSizeTimes2(w, h) == 2 * (w * h) + w * h

\* ToIntegerOrInfinity(frameSize), the index subarray() cuts at
frameSizeIndex(w, h) == frameSizeTimes2(w, h) \div 2

\* while (buf.length >= frameSize) { frame = buf.subarray(0, frameSize);
\*   buf = buf.subarray(frameSize); onFrame(frame, targetW, targetH) }
RECURSIVE slice(_, _, _, _)
slice(b, out, w, h) ==
  IF 2 * Len(b) >= frameSizeTimes2(w, h)
  THEN slice(subarrayFrom(b, frameSizeIndex(w, h)),
             Append(out, subarray(b, 0, frameSizeIndex(w, h))), w, h)
  ELSE [buf |-> b, out |-> out]

\* proc.stdout.on('data') of a raw planar instance that is not closed: the
\* next n bytes of the subprocess's output arrive as one chunk.
PlanarData(n) ==
  /\ n \in 1..(Len(input) - fed)
  /\ LET r == slice(buf \o SubSeq(input, fed + 1, fed + n), emitted,
                    planar.targetW, planar.targetH)
     IN /\ buf' = r.buf
        /\ emitted' = r.out
  /\ fed' = fed + n
  /\ UNCHANGED <<input, jpegs, planar>>
  /\ UNCHANGED sessionVars
  /\ UNCHANGED pureVars
  /\ UNCHANGED orderVars
  /\ UNCHANGED viewerVars

\* A spawned raw planar encoder instance of any target size about to
\* write MaxOut bytes
PlanarInit ==
  /\ server = "rtc"
  /\ capEncoder = "ffmpeg"
  /\ sharpAvail = TRUE
  /\ clients = {}
  /\ connections = {}
  /\ sock = [c \in Clients |-> "idle"]
  /\ capture = Null
  /\ staleStarts = 0
  /\ lateFrames = FALSE
  /\ encoder = Null
  /\ encoderW = 0
  /\ encoderH = 0
  /\ encoderBackpressure = FALSE
  /\ isProcessing = FALSE
  /\ procs = <<>>
  /\ job = <<>>
  /\ track = Null
  /\ videoSource = Null
  /\ bufferedAmount = [c \in Clients |-> 0]
  /\ peer = [c \in Clients |-> Null]
  /\ crashed = FALSE
  /\ outbox = [c \in Clients |-> <<>>]
  /\ pushed = <<>>
  /\ calls = NoCalls
  /\ jpegs = <<>>
  /\ input = [i \in 1..MaxOut |-> i % 256]
  /\ \E width, height \in 1..MaxDim, maxWidth \in MaxWidths :
       planar = [targetW |-> targetW(width, height, maxWidth),
                 targetH |-> targetH(width, height, maxWidth)]
  /\ fed = 0
  /\ buf = <<>>
  /\ emitted = <<>>
  /\ NotCalled
  /\ NotNumbered
  /\ worker = NewWorker

PlanarNext == \E n \in 1..MaxOut : PlanarData(n)

\* The raw planar slicer fed a stream in any chunking
SpecPlanar == PlanarInit /\ [][PlanarNext]_vars

\* ============================================================== properties

\* The connected-client set of the program that runs
Viewers == IF server = "ws" THEN clients ELSE connections

\* C1: in every reachable state the capture source is active exactly when
\* the connected-client set is non-empty, in the message-transport server
\* (clients) and in the media-transport server (connections).
C1_CaptureActiveIffViewers == (capture # Null) <=> (Viewers # {})

\* The same for the message-transport server alone
CaptureActiveIffClients == server = "ws" => ((capture # Null) <=> (clients # {}))

\* C2: an attach while the client set is non-empty starts no capture session
\* and the first attach starts exactly one; a detach that leaves a client
\* attached stops nothing and the detach of the last client stops the session.
C2_StartedOncePerSession ==
  [][ /\ (Viewers \subseteq Viewers' /\ Viewers' # Viewers) =>
           calls'.start = (IF Viewers = {} THEN 1 ELSE 0)
      /\ (Viewers' \subseteq Viewers /\ Viewers' # Viewers) =>
           calls'.stop = (IF Viewers' = {} THEN 1 ELSE 0) ]_vars

\* The same for the message-transport server alone
StartedOncePerSessionWs ==
  [][ server = "ws" =>
      /\ (clients \subseteq clients' /\ clients' # clients) =>
           calls'.start = (IF clients = {} THEN 1 ELSE 0)
      /\ (clients' \subseteq clients /\ clients' # clients) =>
           calls'.stop = (IF clients' = {} THEN 1 ELSE 0) ]_vars

\* C3: when start() of the capture source rejects, the handler leaves the
\* client set empty, every client that was connected closed, the capture
\* inactive and no encoder instance.
C3_StartFailureClosesAll ==
  [][ (CaptureStartFailed \/ RtcCaptureStartFailed) =>
        /\ Viewers' = {}
        /\ \A c \in Viewers : sock'[c] # "open"
        /\ capture' = Null
        /\ encoder' = Null ]_vars

\* The same for the message-transport server alone
StartFailureClosesAllWs ==
  [][ CaptureStartFailed =>
        /\ clients' = {}
        /\ \A c \in clients : sock'[c] # "open"
        /\ capture' = Null
        /\ encoder' = Null ]_vars

\* The part of the state attach and detach can change
Session(s) == <<s.clients, s.capture, s.staleStarts, s.encoder, s.encoderW,
                s.encoderH, s.encoderBackpressure, s.procs>>

\* C4: attachClient and detachClient are idempotent per client: a second
\* attach of an attached client and a second detach of a detached client
\* change neither the client set nor the capture nor the encoder, and call
\* neither start() nor stop() nor close().
C4_AttachDetachIdempotent ==
  server = "ws" =>
    \A ws \in Clients :
      LET a == attachClient(St, ws)
          d == detachClient(St, ws)
      IN /\ Session(attachClient(a, ws)) = Session(a)
         /\ attachClient(a, ws).calls = a.calls
         /\ Session(detachClient(d, ws)) = Session(d)
         /\ detachClient(d, ws).calls = d.calls
         /\ ws \in clients =>
              /\ Session(attachClient(St, ws)) = Session(St)
              /\ attachClient(St, ws).calls = NoCalls
         /\ ws \notin clients =>
              /\ Session(detachClient(St, ws)) = Session(St)
              /\ detachClient(St, ws).calls = NoCalls

\* C4 witness: a client detached by 'error' whose 'close' is still to come,
\* while another client keeps the capture running.
C4_Witness ==
  /\ server = "ws"
  /\ \E ws \in Clients : sock[ws] = "errored" /\ ws \notin clients
  /\ clients # {}
  /\ capture # Null
  /\ encoder # Null

\* Subprocesses spawned on which close() has not been invoked
LiveInstances ==
  (IF encoder # Null /\ ~encoder.killed THEN 1 ELSE 0)
  + Cardinality({i \in 1..Len(procs) : ~procs[i].killed})

\* C5: at most one encoder instance is live: every subprocess other than
\* the one `encoder` refers to has had close() invoked on it.
C5_AtMostOneLiveEncoder ==
  /\ LiveInstances <= 1
  /\ \A i \in 1..Len(procs) : procs[i].killed

\* C5 witness: a replaced instance, closed with its 'drain' still to come,
\* beside the live instance that replaced it.
C5_Witness ==
  /\ Len(procs) = 1
  /\ procs[1].killed
  /\ encoder # Null
  /\ ~encoder.killed
  /\ calls.spawn = 1

\* What the capture callback does with raw frame f in state s
FeedIn(s, f, spawned, accepted) ==
  IF server = "ws" THEN onFrame(s, f, spawned, accepted)
  ELSE rtcOnFrame(s, f, accepted)

\* What the capture callback does with raw frame f in the current state
Feed(f, spawned, accepted) == FeedIn(St, f, spawned, accepted)

\* C6: whenever a raw frame can arrive and finds an encoder instance, the
\* callback rebuilds the instance (closes it and calls the encoder factory)
\* if and only if the frame's width or height differs from the instance's.
C6_RebuiltIffResolutionDiffers ==
  ( /\ capEncoder = "ffmpeg"
    /\ capture # Null \/ lateFrames
    /\ Viewers # {}
    /\ encoder # Null )
  => \A f \in Resolutions, spawned \in BOOLEAN, accepted \in {"true", "false"} :
       LET t == Feed(f, spawned, accepted)
           differs == f.w # encoder.w \/ f.h # encoder.h
       IN /\ (t.calls.spawn = 1 /\ t.calls.close >= 1) <=> differs
          /\ t.calls.spawn = 0 <=> ~differs
          /\ (differs /\ spawned) =>
               /\ t.encoder # Null
               /\ t.encoder.w = f.w
               /\ t.encoder.h = f.h
               /\ ~t.encoder.killed

\* C6 witness: an instance rebuilt for a frame that differs in height only
C6_Witness ==
  /\ calls.spawn = 1
  /\ calls.close = 1
  /\ encoder # Null
  /\ encoder.w = 1
  /\ encoder.h = 2
  /\ Len(procs) = 0

\* input is [0xFF,0xD8, payload, 0xFF,0xD9] for some payload
Framed(b) ==
  /\ Len(b) >= 4
  /\ subarray(b, 0, 2) = SOI
  /\ subarrayFrom(b, Len(b) - 2) = EOI

\* ... and the bytes after the start marker hold no 0xFF,0xD9 pair before
\* the final one
FramedOnce(b) ==
  /\ Framed(b)
  /\ \A i \in 2..(Len(b) - 3) : ~(b[i + 1] = 255 /\ b[i + 2] = 217)

C8_OnlyWholeFrames ==
  \A k \in 1..Len(emitted) :
    /\ Framed(emitted[k])
    /\ \E i \in 0..(fed - Len(emitted[k])) :
         subarray(input, i, i + Len(emitted[k])) = emitted[k]

\* C8 witness: a frame cut out of the middle of a stream, with junk before
\* it and bytes after it.
C8_Witness ==
  /\ Len(emitted) = 1
  /\ Len(input) = 6
  /\ fed = 6
  /\ input[1] = 0
  /\ emitted[1] = subarray(input, 1, 5)

\* C9: on every broadcast a client over the buffered-bytes limit is sent
\* nothing, and every other client in the set whose transport is open is
\* sent that frame, once and as it is, whatever the other clients' buffers.
C9_SlowClientSkippedOthersServed ==
  [][ \A jpeg \in Resolutions :
        ( \/ SharpDone /\ jpeg = Head(job)
          \/ ProcStdout /\ jpeg = [w |-> encoder.w, h |-> encoder.h] )
        => \A ws \in clients :
             /\ bufferedAmount[ws] > BUFFERED_LIMIT => outbox'[ws] = <<>>
             /\ (bufferedAmount[ws] <= BUFFERED_LIMIT /\ sock[ws] = "open")
                  => outbox'[ws] = <<jpeg>> ]_vars

\* C9 witness: a broadcast that skipped a client over the limit and served
\* a client exactly at the limit.
C9_Witness ==
  \E a, b \in clients :
    /\ a < b
    /\ bufferedAmount[a] > BUFFERED_LIMIT
    /\ outbox[a] = <<>>
    /\ bufferedAmount[b] = BUFFERED_LIMIT
    /\ outbox[b] = <<Res(0)>>

\* The last element of a non-empty sequence
Last(q) == q[Len(q)]

\* C10: for each peer, a candidate is handed to the peer connection only
\* once the remote description is applied, the queue holds the candidates in
\* arrival order, and while candidates wait in the queue the next candidate
\* handed to the peer connection is the one at the head of the queue, never
\* one that arrived later.
C10_QueuedCandidatesFirst ==
  [][ \A id \in Clients :
        (peer[id] # Null /\ peer'[id] # Null) =>
          LET p == peer[id]
              q == peer'[id]
          IN /\ q.delivered # <<>> => q.remoteDescription
             /\ \A i, j \in 1..Len(q.candidateQueue) :
                  i < j => q.candidateQueue[i] < q.candidateQueue[j]
             /\ (Len(q.delivered) > Len(p.delivered) /\ p.candidateQueue # <<>>)
                  => Last(q.delivered) = Head(p.candidateQueue) ]_vars

\* C11: on the in-process codec path at most one encode is outstanding, the
\* in-flight flag is set exactly while it is, and a raw frame that arrives
\* meanwhile is dropped: it is not queued, it starts no encode and nothing
\* is sent for it.
C11_OneEncodeInFlight ==
  /\ Len(job) <= 1
  /\ isProcessing <=> job # <<>>
  /\ (isProcessing /\ (capture # Null \/ lateFrames)) =>
       \A f \in Resolutions, spawned \in BOOLEAN, accepted \in {"true", "false"} :
         LET t == Feed(f, spawned, accepted)
         IN /\ t.job = job
            /\ t.isProcessing
            /\ t.pushed = <<>>
            /\ \A ws \in Clients : t.outbox[ws] = <<>>

\* C11 witness: an encode of a 2x1 frame is outstanding in the in-process
\* configuration while the capture keeps delivering frames to a viewer.
C11_Witness ==
  /\ capEncoder = "sharp"
  /\ isProcessing
  /\ job = <<Res(1)>>
  /\ capture # Null
  /\ capture.start = "ok"
  /\ Viewers # {}

\* A raw frame can reach the external-encoder path
FramesToEncoder ==
  /\ capEncoder = "ffmpeg"
  /\ capture # Null \/ lateFrames
  /\ Viewers # {}

\* C12: on the external-encoder path a write that reports a full channel
\* sets the backpressure flag; a frame is written to the subprocess only
\* when the flag is clear (or the instance was built for that frame after
\* the flag was reset); and the drain signal of the instance clears the flag,
\* after which the next frame of the same resolution is written again.
C12_BackpressureSetHeldCleared ==
  FramesToEncoder =>
    /\ \A f \in Resolutions, spawned \in BOOLEAN, accepted \in {"true", "false"} :
         LET t == Feed(f, spawned, accepted)
         IN /\ t.calls.write <= 1
            /\ (t.calls.write = 1 /\ accepted = "false") =>
                 /\ t.encoderBackpressure
                 /\ t.encoder # Null
                 /\ t.encoder.drainPending
            /\ t.calls.write = 1 => (~encoderBackpressure \/ t.calls.spawn = 1)
            /\ (encoderBackpressure /\ encoder # Null
                  /\ f.w = encoder.w /\ f.h = encoder.h) => t.calls.write = 0
    /\ (encoder # Null /\ encoder.drainPending) =>
         LET d == onDrain([St EXCEPT !.encoder.drainPending = FALSE])
         IN /\ ~d.encoderBackpressure
            /\ ~encoder.closed =>
                 \A spawned \in BOOLEAN, accepted \in {"true", "false"} :
                   FeedIn(d, [w |-> encoder.w, h |-> encoder.h],
                          spawned, accepted).calls.write = 1

\* C12 witness: the write of a frame has just reported a full channel: the
\* flag is set and the drain signal of the instance is still to come.
C12_Witness ==
  /\ FramesToEncoder
  /\ calls.write = 1
  /\ calls.spawn = 0
  /\ encoderBackpressure
  /\ encoder # Null
  /\ encoder.drainPending
  /\ ~encoder.closed

\* The subprocess of the current instance failed to start or exited by
\* itself: its 'error' or 'close' event has run and close() was not invoked.
InstanceFailed == encoder # Null /\ encoder.closed /\ ~encoder.killed

\* What C13 asks of a raw frame that arrives in the current state
RecoversOnFrame ==
  \A f \in Resolutions, spawned \in BOOLEAN, accepted \in {"true", "false"} :
    LET t == Feed(f, spawned, accepted)
    IN /\ t.clients = clients
       /\ t.connections = connections
       /\ t.sock = sock
       /\ InstanceFailed => /\ t.calls.close >= 1
                            /\ t.calls.write = 1 => t.calls.spawn = 1
       /\ encoder = Null => t.calls.spawn = 1

\* C13: after the subprocess of the instance failed to spawn or exited
\* unexpectedly, nothing it outputs is emitted, and the next raw frame tears
\* the instance down with all clients left connected; a raw frame that finds
\* no instance attempts a respawn.
C13_FailedInstanceReplaced ==
  /\ InstanceFailed => ~(ENABLED ProcStdout) /\ ~(ENABLED RtcProcStdout)
  /\ (FramesToEncoder /\ (InstanceFailed \/ encoder = Null)) => RecoversOnFrame

\* The same for an instance that failed while the backpressure flag was clear
FailedInstanceReplacedUnlessBackpressure ==
  /\ InstanceFailed => ~(ENABLED ProcStdout) /\ ~(ENABLED RtcProcStdout)
  /\ (FramesToEncoder /\ (InstanceFailed \/ encoder = Null)
        /\ ~encoderBackpressure) => RecoversOnFrame

\* C14: no error scoped to one frame, one peer or one encoder instance ends
\* the process: every such error is caught by a handler of the program.
C14_NoErrorIsFatal == ~crashed

\* The same for the message-transport server, whose encoder factory
\* registers an 'error' listener
NoErrorIsFatalWs == server = "ws" => ~crashed

\* No subprocess is live in state s: close() has been invoked on each
NoLiveInstance(s) ==
  /\ s.encoder = Null
  /\ \A i \in 1..Len(s.procs) : s.procs[i].killed

\* C15: the stop of the session when the last client leaves closes the one
\* encoder instance there is (none if there is none) and leaves no live
\* subprocess; while no client is attached no subprocess is live and a late
\* raw frame spawns none.
C15_StopTearsDownTheEncoder ==
  /\ Viewers = {} =>
       /\ NoLiveInstance(St)
       /\ \A f \in Resolutions, spawned \in BOOLEAN, accepted \in {"true", "false"} :
            LET t == Feed(f, spawned, accepted)
            IN t.calls.spawn = 0 /\ NoLiveInstance(t)
  /\ server = "ws" =>
       \A ws \in clients :
         clients = {ws} =>
           LET t == detachClient(St, ws)
           IN /\ t.calls.stop = 1
              /\ t.calls.close = (IF encoder # Null THEN 1 ELSE 0)
              /\ NoLiveInstance(t)
  /\ (server = "rtc" /\ connections # {}) =>
       LET t == rtcStopSharedCapture(St)
       IN /\ t.calls.stop = (IF capture # Null THEN 1 ELSE 0)
          /\ t.calls.close = (IF encoder # Null THEN 1 ELSE 0)
          /\ NoLiveInstance(t)

\* C15 witness: the last client has just left: the session was stopped and
\* its encoder instance closed, and the stopped capture can still deliver
\* frames.
C15_Witness ==
  /\ Viewers = {}
  /\ calls.stop = 1
  /\ calls.close = 1
  /\ lateFrames
  /\ encoderW = 0

StaleOutputDiscarded ==
  \A i \in 1..Len(procs) :
    LET t == IF server = "ws" THEN onData(St, procs[i])
             ELSE rtcOnData(St, procs[i])
    IN /\ t.pushed = <<>>
       /\ \A ws \in Clients : t.outbox[ws] = <<>>

\* C17, the half about answers: the signaling state returns to stable only
\* from have-local-offer and with the remote description applied, and an
\* answer received in any other state changes nothing of the peer.
AnswerAppliedOnlyToLocalOffer ==
  [][ \A id \in Clients :
        (peer[id] # Null /\ peer'[id] # Null) =>
          LET p == peer[id]
              q == peer'[id]
          IN /\ (p.signalingState # "stable" /\ q.signalingState = "stable")
                  => (p.signalingState = "have-local-offer" /\ q.remoteDescription)
             /\ (Answer(id) /\ p.signalingState # "have-local-offer")
                  => q = [p EXCEPT !.offers = @ - 1] ]_vars

\* C17: for each peer an offer is created only when negotiation is needed
\* and the signaling state is stable, and it is applied and sent only in
\* that state; the state returns to stable only by an answer applied in
\* have-local-offer; an answer received in any other state is dropped and
\* leaves the signaling state, the candidate queue and the peer connection
\* as they are.
C17_SignalingStateMachine ==
  [][ \A id \in Clients :
        (peer[id] # Null /\ peer'[id] # Null) =>
          LET p == peer[id]
              q == peer'[id]
          IN /\ Len(q.negotiating) > Len(p.negotiating)
                  => /\ p.signalingState = "stable"
                     /\ p.negotiationNeeded \/ q.negotiationNeeded
             /\ q.offers > p.offers => p.signalingState = "stable"
             /\ (p.signalingState # "stable" /\ q.signalingState = "stable")
                  => (p.signalingState = "have-local-offer" /\ q.remoteDescription)
             /\ (Answer(id) /\ p.signalingState # "have-local-offer")
                  => q = [p EXCEPT !.offers = @ - 1] ]_vars

\* Line i of `lines` lies in the video media section: after the first
\* m=video line and before the next m= line
InVideoSection(lines, i) ==
  LET v == findVideo(lines) + 1
  IN /\ v >= 1
     /\ i > v
     /\ \A k \in (v + 1)..i : lines[k].prefix \notin {"m=video", "m=audio"}

\* C19: for a description with a video section the rewrite inserts one
\* bandwidth line right after the m=video line and appends the bitrate
\* parameters to the a=fmtp lines of that section; every other line keeps
\* its text and its place; a description with no video section is returned
\* as it is.
C19_RewritesVideoSectionOnly ==
  munged # <<>> =>
    LET v == findVideo(sdp) + 1
        result == munged[1]
    IN IF v = 0 THEN result = sdp
       ELSE /\ Len(result) = Len(sdp) + 1
            /\ result[v + 1] = BandwidthLine
            /\ \A i \in 1..Len(sdp) :
                 LET out == result[IF i <= v THEN i ELSE i + 1]
                 IN IF sdp[i].prefix = "a=fmtp" /\ InVideoSection(sdp, i)
                    THEN out = [sdp[i] EXCEPT !.appended = 1]
                    ELSE out = sdp[i]

\* What the rewrite does: the same, with the bitrate parameters appended to
\* every a=fmtp line of the description
RewritesEveryFmtpLine ==
  munged # <<>> =>
    LET v == findVideo(sdp) + 1
        result == munged[1]
    IN IF v = 0 THEN result = sdp
       ELSE /\ Len(result) = Len(sdp) + 1
            /\ result[v + 1] = BandwidthLine
            /\ \A i \in 1..Len(sdp) :
                 LET out == result[IF i <= v THEN i ELSE i + 1]
                 IN IF sdp[i].prefix = "a=fmtp"
                    THEN out = [sdp[i] EXCEPT !.appended = 1]
                    ELSE out = sdp[i]

\* The description carries the bandwidth line once and the bitrate
\* parameters once on each of its a=fmtp lines
RewrittenOnce(lines) ==
  /\ Cardinality({i \in 1..Len(lines) : lines[i].prefix = "b=AS"}) = 1
  /\ \A i \in 1..Len(lines) :
       lines[i].prefix = "a=fmtp" => lines[i].appended = 1

\* C18: every offer handed to setLocalDescription and every offer emitted
\* to the client, and every answer handed to setRemoteDescription, has been
\* rewritten exactly once: none goes out unrewritten, none carries the
\* bandwidth line or the bitrate parameters twice.
C18_RewrittenExactlyOnce ==
  \A id \in Clients :
    peer[id] # Null =>
      LET p == peer[id]
      IN /\ \A i \in 1..Len(p.negotiating) :
              p.negotiating[i].at = "setLocalDescription"
                => RewrittenOnce(p.negotiating[i].sdp)
         /\ p.localDescription # <<>> => RewrittenOnce(p.localDescription)
         /\ p.offer # <<>> => RewrittenOnce(p.offer)
         /\ \A i \in 1..Len(p.answering) :
              p.answering[i].at = "setRemoteDescription"
                => RewrittenOnce(p.answering[i].sdp)
         /\ p.remoteSdp # <<>> => RewrittenOnce(p.remoteSdp)

\* An offer has been applied and emitted and its answer has been applied
C18_Witness ==
  /\ peer[1] # Null
  /\ peer[1].offer # <<>>
  /\ peer[1].localDescription = peer[1].offer
  /\ peer[1].remoteSdp # <<>>


\* The frame given to the converter has even width and height and every
\* pixel of it has R = G = B = 128
UniformGrayEven ==
  /\ rgba.width % 2 = 0
  /\ rgba.height % 2 = 0
  /\ \A k \in 0..(rgba.width * rgba.height - 1) :
       /\ rgba.rgba[4 * k + 1] = 128
       /\ rgba.rgba[4 * k + 2] = 128
       /\ rgba.rgba[4 * k + 3] = 128

\* C20: for a uniform frame with R = G = B = 128 of even width and height,
\* the converter returns width * height luma samples and two chroma planes
\* of a quarter of that size each, and every sample of the three planes is
\* within 1 of 128.
C20_NeutralGrayStaysNeutral ==
  (i420 # <<>> /\ UniformGrayEven) =>
    LET out == i420[1]
    IN /\ Len(out) = (rgba.width * rgba.height * 3) \div 2
       /\ \A i \in 1..Len(out) : out[i] \in 127..129

\* A uniform gray frame of 4 by 2 pixels has been converted
C20_Witness ==
  /\ i420 # <<>>
  /\ UniformGrayEven
  /\ rgba.width = 4
  /\ rgba.height = 2

\* ceil(n / 2)
HalfUp(n) == (n + 1) \div 2

\* The chroma samples the loops compute, in order: the pixels at an even
\* row and an even column
ChromaPixels(width, height) ==
  {k \in 0..(width * height - 1) :
     (k \div width) % 2 = 0 /\ (k % width) % 2 = 0}

\* C21: for every width and height from 1 up, the converter returns
\* width * height + 2 * ceil(width / 2) * ceil(height / 2) bytes, and the U
\* and the V sample of every pixel at an even row and an even column are in
\* that buffer, in the order computed, in the two planes that follow the
\* luma plane.
C21_PlanarBufferSizedByCeiling ==
  i420 # <<>> =>
    LET out == i420[1]
        w == rgba.width
        h == rgba.height
        uvSize == HalfUp(w) * HalfUp(h)
    IN /\ Len(out) = w * h + 2 * uvSize
       /\ \A k \in ChromaPixels(w, h) :
            LET n == Cardinality({j \in ChromaPixels(w, h) : j < k})
                r == rgba.rgba[4 * k + 1]
                g == rgba.rgba[4 * k + 2]
                b == rgba.rgba[4 * k + 3]
            IN /\ out[w * h + n + 1] = chromaU(r, g, b)
               /\ out[w * h + uvSize + n + 1] = chromaV(r, g, b)

\* What the converter does: the buffer has
\* width * height + 2 * floor(width / 2) * floor(height / 2) bytes, so it
\* has the size of the claim exactly when width and height are even
SizedByFloor ==
  i420 # <<>> =>
    /\ Len(i420[1]) = rgba.width * rgba.height
                        + 2 * (rgba.width \div 2) * (rgba.height \div 2)
    /\ (rgba.width % 2 = 0 /\ rgba.height % 2 = 0)
         => Len(i420[1]) = rgba.width * rgba.height
                             + 2 * HalfUp(rgba.width) * HalfUp(rgba.height)

\* C22: the frames inside the encoder are in capture order, and a frame
\* sent to a client was captured after every frame sent to that client
\* before it: none is sent out of order, none twice.
C22_DeliveredInCaptureOrder ==
  [][/\ \A i \in 1..(Len(pipe') - 1) : pipe'[i] < pipe'[i + 1]
     /\ \A ws \in Clients :
          /\ \A i \in 1..Len(outbox'[ws]) : outbox'[ws][i].n > last[ws]
          /\ \A i \in 1..(Len(outbox'[ws]) - 1) :
               outbox'[ws][i].n < outbox'[ws][i + 1].n]_vars

\* With one codec only (the in-process codec not installed, or no
\* subprocess configured) the frames do reach every client in capture order
InOrderWithOneCodec ==
  [][(~sharpAvail \/ capEncoder # "ffmpeg") =>
       /\ \A i \in 1..(Len(pipe') - 1) : pipe'[i] < pipe'[i + 1]
       /\ \A ws \in Clients :
            \A i \in 1..Len(outbox'[ws]) : outbox'[ws][i].n > last[ws]]_vars

C24_FailedEncodeSkipsOneFrame ==
  job # <<>> =>
    LET t == frameFailed(St)
    IN /\ ~t.isProcessing
       /\ t.job = Tail(job)
       /\ t.clients = clients
       /\ t.connections = connections
       /\ t.sock = sock
       /\ t.capture = capture
       /\ t.staleStarts = staleStarts
       /\ t.encoder = encoder
       /\ t.encoderW = encoderW
       /\ t.encoderH = encoderH
       /\ t.encoderBackpressure = encoderBackpressure
       /\ t.procs = procs
       /\ t.track = track
       /\ t.videoSource = videoSource
       /\ t.peer = peer
       /\ ~t.crashed
       /\ t.pushed = <<>>
       /\ \A ws \in Clients : t.outbox[ws] = <<>>
       /\ t.calls = NoCalls
       /\ (capEncoder = "sharp" /\ sharpAvail /\ capture # Null /\ Viewers # {}) =>
            \A f \in Resolutions :
              LET u == FeedIn(t, f, TRUE, "true")
              IN /\ u.job = <<f>>
                 /\ u.isProcessing
                 /\ server = "ws" =>
                      \A ws \in clients :
                        sock[ws] = "open" /\ bufferedAmount[ws] <= BUFFERED_LIMIT
                          => broadcastJpeg(u, f).outbox[ws] = <<f>>
                 /\ (server = "rtc" /\ videoSource # Null) =>
                      pushWebRTCFrame(u, f).pushed = <<f>>

\* C24 witness: the in-process encode of a frame is outstanding, and can
\* throw, while the capture runs for a connected viewer
C24_Witness ==
  /\ capEncoder = "sharp"
  /\ sharpAvail
  /\ job # <<>>
  /\ isProcessing
  /\ capture # Null
  /\ Viewers # {}
  /\ ENABLED SharpFailed


\* C25: a peer that is not connected has no polling timer and no peer
\* connection, so no tick attaches a track for it; the disconnect of a peer
\* removes it from the connection set and leaves the other peers as they
\* are; and the disconnect of the last peer stops the capture source,
\* closes the encoder instance and drops the track and the video source.
C25_DisconnectTearsDown ==
  /\ \A id \in Clients :
       id \notin connections => (peer[id] = Null /\ ~ENABLED CheckTrack(id))
  /\ \A id \in connections :
       LET u == disconnect(St, id)
       IN /\ u.peer[id] = Null
          /\ u.connections = connections \ {id}
          /\ \A other \in connections \ {id} : u.peer[other] = peer[other]
          /\ connections = {id} =>
               /\ u.capture = Null
               /\ u.encoder = Null
               /\ u.track = Null
               /\ u.videoSource = Null
               /\ u.calls.stop = (IF capture = Null THEN 0 ELSE 1)
               /\ u.calls.close = (IF encoder = Null THEN 0 ELSE 1)
               /\ \A i \in 1..Len(u.procs) : u.procs[i].closed
          /\ connections # {id} =>
               /\ u.capture = capture
               /\ u.encoder = encoder
               /\ u.track = track
               /\ u.videoSource = videoSource
               /\ u.calls = NoCalls

\* C25 witness: the last peer has disconnected while a subprocess was
\* encoding: the capture was stopped and the instance closed in that
\* callback, and nothing of the session is left
C25_Witness ==
  /\ server = "rtc"
  /\ connections = {}
  /\ calls.stop = 1
  /\ calls.close = 1
  /\ capture = Null
  /\ encoder = Null
  /\ track = Null
  /\ videoSource = Null
  /\ \A id \in Clients : peer[id] = Null

\* C26: a peer that stays connected while a track exists eventually has that
\* track attached to its connection.
C26_TrackEventuallyAttached ==
  \A id \in Clients :
    (peer[id] # Null /\ track # Null)
      ~> (peer[id] = Null \/ track = Null \/ track \in peer[id].senders)

\* What a tick does: while the track exists, the tick of a peer attaches it
\* unless the peer has it, calls negotiate() for a track it attached in the
\* stable state, and clears the interval
TickAttachesOnce ==
  [][\A id \in Clients :
       CheckTrack(id) =>
         LET p == peer[id]
             q == peer'[id]
         IN /\ q.senders = p.senders \cup {track}
            /\ ~q.polling
            /\ (track \notin p.senders /\ p.signalingState = "stable")
                 => Len(q.negotiating) = Len(p.negotiating) + 1
            /\ track \in p.senders => q.negotiating = p.negotiating]_vars

\* A peer whose interval is still running does get the track
PollingPeerGetsTrack ==
  \A id \in Clients :
    (peer[id] # Null /\ peer[id].polling /\ track # Null)
      ~> (peer[id] = Null \/ track = Null \/ track \in peer[id].senders)

\* C27: when a raw frame whose width or height differs from the live
\* instance's arrives, the instance is closed, a replacement is spawned for
\* the frame's resolution, and the frame is written to the replacement
\* whatever the backpressure flag was; afterwards the flag says what that
\* write returned.
C27_TriggeringFrameFedToReplacement ==
  (FramesToEncoder /\ encoder # Null) =>
    \A f \in Resolutions, accepted \in {"true", "false"} :
      (f.w # encoder.w \/ f.h # encoder.h) =>
        LET t == Feed(f, TRUE, accepted)
        IN /\ t.calls.close >= 1
           /\ t.calls.spawn = 1
           /\ t.encoder # Null
           /\ t.encoder.w = f.w
           /\ t.encoder.h = f.h
           /\ t.calls.write = 1
           /\ t.encoderBackpressure <=> accepted = "false"
           /\ t.encoder.drainPending <=> accepted = "false"

\* The same holds in the message-transport server, whose stopEncoder
\* resets the flag
TriggeringFrameFedToReplacementWs ==
  server = "ws" => C27_TriggeringFrameFedToReplacement


\* The frames of the stream that the first n bytes of it hold completely
RECURSIVE Complete(_, _)
Complete(ps, n) ==
  IF ps = <<>> THEN <<>>
  ELSE LET before == SubSeq(ps, 1, Len(ps) - 1)
       IN IF Len(Bytestream(ps)) <= n
          THEN Append(Complete(before, n), ps[Len(ps)].frame)
          ELSE Complete(before, n)

\* The stream is made of frames that hold no end marker before their last
\* two bytes, and of junk that holds no start marker
Delimited ==
  \A i \in 1..Len(jpegs) :
    /\ FramedOnce(jpegs[i].frame)
    /\ indexOf(jpegs[i].junk, SOI, 0) = -1

\* The frames handed over are those the bytes delivered so far hold
\* completely, in stream order, and the buffer holds no byte that precedes
\* a start marker, other than the last two bytes of a buffer without one
EmittedAsDelivered ==
  /\ emitted = Complete(jpegs, fed)
  /\ Len(buf) <= 2 \/ subarray(buf, 0, 2) = SOI

\* C28 as claimed: for a stream that is a concatenation of frames, each
\* between a start and an end marker, with junk between them, in any
\* chunking: the frames handed over are exactly the frames of the stream
\* that have arrived completely, in stream order; all frames that a chunk
\* completes are handed over when that chunk has been processed; and the
\* bytes before a start marker are dropped.
C28_Original == EmittedAsDelivered

\* C28 as amended: the same for frames whose payload, followed by the end
\* marker, holds no earlier 0xFF,0xD9 pair and for junk that holds no
\* 0xFF,0xD8 pair.
C28_FramesInStreamOrder == Delimited => EmittedAsDelivered

\* C28 witness: two frames with a junk byte before each arrived as one
\* chunk and were both handed over in that pass
C28_Witness ==
  /\ Delimited
  /\ Len(jpegs) = 2
  /\ jpegs[1].junk = <<0>>
  /\ jpegs[2].junk = <<255>>
  /\ fed = Len(input)
  /\ buf = <<>>
  /\ emitted = <<jpegs[1].frame, jpegs[2].frame>>

\* C29: whenever a chunk has been processed and the buffer holds no start
\* marker, the buffer holds at most one byte, the last one.
C29_KeepsOnlyFinalByte ==
  fed > 0 /\ indexOf(buf, SOI, 0) < 0 => Len(buf) <= 1

\* What the code keeps of a buffer without a start marker: its last two bytes
KeepsFinalTwoBytes ==
  fed > 0 /\ indexOf(buf, SOI, 0) < 0
    => /\ Len(buf) <= 2
       /\ buf = subarrayFrom(subarray(input, 0, fed),
                             IF fed > 2 /\ Len(buf) = 2 THEN fed - 2
                             ELSE fed - Len(buf))


\* The buffer holds a complete frame: a start marker and an end marker
\* after it
HasFrame(b) ==
  LET start == indexOf(b, SOI, 0)
  IN start >= 0 /\ indexOf(b, EOI, start + 2) >= 0

\* The buffer as it is once the chunk that Data is about to deliver has
\* been appended
Appended == concat(buf, SubSeq(input, fed + 1, fed'))

\* C30: the buffer never exceeds the ceiling once a chunk has been
\* processed, and a chunk that leaves a complete frame in the buffer has
\* that frame handed over, never dropped because the buffer is over the
\* ceiling.
C30_CeilingSparesCompleteFrames ==
  [][fed' > fed =>
       /\ Len(buf') <= MaxBuf
       /\ HasFrame(Appended) => Len(emitted') > Len(emitted)]_vars

\* What the code does: the buffer never exceeds the ceiling once a chunk
\* has been processed, and a buffer within the ceiling has its complete
\* frames handed over
CeilingCutsBeforeParsing ==
  [][fed' > fed =>
       /\ Len(buf') <= MaxBuf
       /\ HasFrame(Appended) /\ Len(Appended) <= MaxBuf
            => Len(emitted') > Len(emitted)
       /\ Len(Appended) > MaxBuf
            => emitted' = emitted /\ Len(buf') <= 2]_vars


\* All frames handed over, one after the other
RECURSIVE Joined(_)
Joined(fs) == IF fs = <<>> THEN <<>> ELSE Head(fs) \o Joined(Tail(fs))

\* The frames handed over and the buffer are the bytes delivered so far,
\* in order, each byte once
NothingLostOrShared == Joined(emitted) \o buf = SubSeq(input, 1, fed)

\* C31: on the raw planar sub-kind, for any chunking, every frame handed
\* over has exactly targetW*targetH*3/2 bytes, the frames handed over are,
\* one after the other, a prefix of the output stream, and less than one
\* frame of bytes is buffered once a chunk has been processed.
C31_FixedSizeSlices ==
  /\ \A i \in 1..Len(emitted) :
       2 * Len(emitted[i]) = 3 * planar.targetW * planar.targetH
  /\ NothingLostOrShared
  /\ fed > 0 => 2 * Len(buf) < 3 * planar.targetW * planar.targetH

\* What the code does: the frames have the integer part of
\* targetW*targetH*3/2 bytes
SlicesOfTruncatedSize ==
  /\ \A i \in 1..Len(emitted) :
       Len(emitted[i]) = (3 * planar.targetW * planar.targetH) \div 2
  /\ NothingLostOrShared
  /\ fed > 0 => 2 * Len(buf) < 3 * planar.targetW * planar.targetH


\* The flag is set and the subprocess it was set for has exited
StalledOnExited ==
  encoderBackpressure /\ encoder # Null /\ encoder.closed

\* The flag is set and the subprocess it was set for is running
WaitingForDrain ==
  encoderBackpressure /\ encoder # Null /\ ~encoder.closed

\* A running subprocess under backpressure drains, exits or is replaced
LiveInstanceDrains == WaitingForDrain ~> ~WaitingForDrain

\* C32: while a client stays connected and frames keep arriving, a set
\* backpressure flag is eventually cleared, or the instance is torn down
\* and a new one spawned, also when the subprocess exits while the flag is
\* set.
C32_BackpressureNeverStallsForGood ==
  /\ LiveInstanceDrains
  /\ StalledOnExited ~> ~StalledOnExited

\* What holds: in the shared-session WS server a running subprocess under
\* backpressure drains, exits or is replaced
WsLiveInstanceDrains ==
  (server = "ws" /\ WaitingForDrain) ~> ~WaitingForDrain

\* C33: a start failure reported for a capture session that was stopped
\* and replaced while its start was pending does not stop the newer
\* session, tear down its encoder, or close and clear its clients.
C33_StaleStartFailureSparesNewSession ==
  [][ (StaleCaptureStartFailed \/ RtcStaleCaptureStartFailed) =>
        /\ capture' = capture
        /\ encoder' = encoder
        /\ clients' = clients
        /\ connections' = connections
        /\ sock' = sock ]_vars

\* What holds: a late success of a stopped session's start changes nothing
\* of the newer session
StaleStartSuccessSparesNewSession ==
  [][ (StaleCaptureStarted \/ RtcStaleCaptureStarted) =>
        /\ capture' = capture
        /\ encoder' = encoder
        /\ clients' = clients
        /\ connections' = connections
        /\ sock' = sock ]_vars

\* The invocations of negotiate that have passed the stable-state check and
\* not finished, and the offers transmitted and not yet answered
OffersInFlight(id) == Len(peer[id].negotiating) + peer[id].offers

\* C34: for each peer at most one local offer is in flight: once one
\* invocation of negotiate has passed its stable-state check, no second
\* invocation creates, applies or transmits another offer before the
\* first has been answered.
C34_OneOfferInFlight ==
  \A id \in Clients : peer[id] # Null => OffersInFlight(id) <= 1

\* What holds: an invocation of negotiate starts an offer only when the
\* signalling state is stable
OfferStartedOnlyWhenStable ==
  [][ \A id \in Clients :
        (/\ peer[id] # Null
         /\ peer'[id] # Null
         /\ Len(peer'[id].negotiating) > Len(peer[id].negotiating))
          => peer[id].signalingState = "stable" ]_vars


\* The peer's answer has been applied and candidates are still queued
QueuedAfterAnswer(id) ==
  /\ peer[id] # Null
  /\ peer[id].remoteDescription
  /\ peer[id].candidateQueue # <<>>

\* The peer is gone or its queue is empty
Flushed(id) == peer[id] = Null \/ peer[id].candidateQueue = <<>>

\* C35: once a peer's remote answer has been applied, every candidate
\* queued before it is eventually handed to the peer connection and the
\* queue becomes empty, even if delivering one of them fails.
C35_QueueEventuallyFlushed ==
  \A id \in Clients : QueuedAfterAnswer(id) ~> Flushed(id)

\* What holds: while an 'answer' handler is in its flush loop, the queue
\* becomes empty or the loop ends
FlushRunsUntilFailure ==
  \A id \in Clients :
    (QueuedAfterAnswer(id) /\ peer[id].answering # <<>>)
      ~> (Flushed(id) \/ peer[id].answering = <<>>)

\* The frame f handed to the capture callback in the current state is
\* written, if at all, to a subprocess spawned with the size of f
WrittenAtSpawnSize(t, f) ==
  t.calls.write >= 1 =>
    /\ t.encoder # Null
    /\ t.encoder.w = f.w
    /\ t.encoder.h = f.h

\* C36: every raw frame written to an external encoder subprocess has the
\* width and height the subprocess was spawned with, and whenever an
\* encoder instance exists the recorded encoderW and encoderH are its
\* spawn-time size, whatever frames, resolution changes, failures and
\* session restarts came before.
C36_WrittenFramesMatchSpawnSize ==
  /\ encoder # Null => encoderW = encoder.w /\ encoderH = encoder.h
  /\ (capture # Null \/ lateFrames) =>
       \A f \in Resolutions, accepted \in {"true", "false"} :
         /\ server = "ws" =>
              \A spawned \in BOOLEAN :
                WrittenAtSpawnSize(onFrame(St, f, spawned, accepted), f)
         /\ server = "rtc" =>
              WrittenAtSpawnSize(rtcOnFrame(St, f, accepted), f)

\* C36 witness: a frame of a new size has just made the callback close the
\* running subprocess, spawn one of the frame's size and write the frame
C36_Witness ==
  /\ calls.close = 1
  /\ calls.spawn = 1
  /\ calls.write = 1
  /\ encoder # Null
  /\ encoderW = encoder.w
  /\ encoderH = encoder.h
  /\ \E p \in 1..Len(procs) : procs[p].w # encoder.w \/ procs[p].h # encoder.h


\* The three samples computed for a pixel are values of a byte
SamplesInByte(r, g, b) ==
  /\ luma(r, g, b) \in 0..255
  /\ chromaU(r, g, b) \in 0..255
  /\ chromaV(r, g, b) \in 0..255

\* C37: for every pixel with R, G and B in 0..255 the luma value and both
\* chroma values the converter computes, the 128 added, lie in 0..255
\* before they are stored, so that no stored byte wraps around: for the
\* red and green of the frame and every blue, and the stored samples of
\* the converted frame are the computed ones.
C37_SamplesNeverWrap ==
  LET r == rgba.rgba[1]
      g == rgba.rgba[2]
  IN /\ \A b \in Channel : SamplesInByte(r, g, b)
     /\ i420 # <<>> =>
          /\ \A i \in 1..4 : i420[1][i] = luma(r, g, rgba.rgba[3])
          /\ i420[1][5] = chromaU(r, g, rgba.rgba[3])
          /\ i420[1][6] = chromaV(r, g, rgba.rgba[3])

\* C37 witness: a yellow frame has been converted and its U sample, the
\* lowest there is, was stored as 1
C37_Witness ==
  /\ i420 # <<>>
  /\ rgba.rgba[1] = 255
  /\ rgba.rgba[2] = 255
  /\ rgba.rgba[3] = 0
  /\ i420[1] = <<226, 226, 226, 226, 1, 148>>


\* At most one decode is in flight, and one is exactly while decoding is set
OneDecodeInFlight ==
  /\ Len(worker.inflight) <= 1
  /\ worker.decoding <=> worker.inflight # <<>>

\* C38: in the viewer's decoder worker at most one decode is in flight,
\* and whenever none is in flight the pending slot is empty, so that the
\* frame received last is never left undrawn, also after a decode that
\* throws.
C38_NoFrameStranded ==
  /\ OneDecodeInFlight
  /\ ~worker.decoding => worker.pending = 0

\* What holds: the pending slot is empty whenever no decode is in flight
\* and no decode has thrown since the slot was filled
NoFrameStrandedWithoutThrow ==
  /\ OneDecodeInFlight
  /\ (~worker.decoding /\ worker.pending # 0) =>
       /\ worker.posted # <<>>
       /\ worker.posted[Len(worker.posted)] = "error"

====
